---- MODULE Spec2Model ----
(***************************************************************************)
(* Message handling and onboarding state of the BlueBubbles webhook        *)
(* backend: the webhook endpoint (app.py), MessageProcessor, the identity   *)
(* creation of AuthUserService, IntegrationService and the transcript       *)
(* serialisation of AIConversationService.                                  *)
(*                                                                          *)
(* All webhooks of the model come from one phone number.  Every call to    *)
(* the database, the auth provider or the transport is one atomic step of   *)
(* the task that makes it; tasks of different webhooks interleave between   *)
(* those steps.  user_profiles holds at most one row for the phone number   *)
(* (phone_number and id are taken to be unique keys: an insert for a phone  *)
(* that already has a row raises the duplicate error that                   *)
(* create_authenticated_user catches).                                      *)
(***************************************************************************)
EXTENDS Naturals, Sequences, FiniteSets, TLC

\* ------------------------------------------------------------------ bounds
\* Number of webhook deliveries in one behaviour.
MaxDeliveries == 2
\* Longest transcript and longest content (in characters) that are serialised.
MaxTurns == 2
MaxContentLen == 2
\* Longest history handed to _truncate_context and most tokens of one turn.
MaxHistory == 3
MaxTurnTokens == 6
\* replies of one webhook (the dashboard answer has 3)
MaxReplies == 3
\* requests the endpoint answers
MaxRequests == 3

\* ------------------------------------------------------------ basic values
Tasks == {"t1", "t2"}
NULL == "null"
Emails == {"e1", "e2"}
\* temp_<phone>@temp.example.com of _handle_new_user_workflow
TempEmail == "temp"
GoodCode == "123456"

\* A message text is a sequence of whitespace-separated words.
Texts ==
  { <<"restart">>, <<"e1">>, <<"e2">>, <<"123456">>, <<"000000">>, <<"hi">>,
    <<"e2", "123456">> }

\* the words matched by email_pattern
IsEmailWord(w) == w \in Emails
\* the words that contain one of ai_function_keywords
IsKeywordWord(w) == w \in {"draft"}
\* the words matched by \b\d{6}\b
IsSixDigits(w) == w \in {"123456", "000000"}

\* the words of a text
Words(text) == {text[i] : i \in 1..Len(text)}

\* position of the first match, re.findall(...)[0], or 0 without a match
FirstIndex(text, matching) ==
  IF \E i \in 1..Len(text) : text[i] \in matching
    THEN CHOOSE i \in 1..Len(text) :
           text[i] \in matching /\ \A j \in 1..(i-1) : text[j] \notin matching
    ELSE 0

_extract_email_from_text(text) ==
  LET first == FirstIndex(text, {w \in Words(text) : IsEmailWord(w)})
  IN IF \E w \in Words(text) : IsKeywordWord(w) THEN NULL
     ELSE IF first = 0 THEN NULL
     ELSE text[first]

_extract_otp_from_text(text) ==
  LET first == FirstIndex(text, {w \in Words(text) : IsSixDigits(w)})
  IN IF first = 0 THEN NULL ELSE text[first]

IsRestart(text) == text = <<"restart">>

\* ----------------------------------------------------------------- payloads
\* kind: "msg" a new-message event of another sender with a handle; "self"
\* isFromMe; "typing" another event type; "nophone" a message without handle.
PayloadKinds == {"msg", "self", "typing", "nophone"}

Payload(n, kind, text) == [guid |-> n, kind |-> kind, text |-> text]

\* generate_event_id: the SHA-256 hex digest of the raw body, one digest per body
generate_event_id(raw) == <<"sha256", raw.guid, raw.kind, raw.text>>

\* --------------------------------------------------------------- the tables
NoRow ==
  [exists |-> FALSE, id |-> 0, email |-> NULL, onboarding_state |-> "not_started",
   email_verified |-> FALSE, onboarding_completed |-> FALSE,
   google |-> FALSE, canvas |-> FALSE]

\* the row create_authenticated_user inserts
NewRow(id, email) ==
  [exists |-> TRUE, id |-> id, email |-> email, onboarding_state |-> "not_started",
   email_verified |-> FALSE, onboarding_completed |-> FALSE,
   google |-> FALSE, canvas |-> FALSE]

NoUser == [profile |-> NoRow, auth_email |-> NULL]

IdleTask ==
  [pc |-> "idle", payload |-> Payload(0, "msg", <<"hi">>), existing_user |-> NoUser,
   email |-> NULL, uid |-> 0, reply |-> "none", success |-> TRUE, otps |-> 0,
   new_user |-> FALSE, overlap |-> FALSE]

\* no model output is being interpreted (a function_result of None and the
\* empty one, which "if function_result" takes alike, are both <<>>)
NoInterp ==
  [pc |-> "off", full_ai_response |-> <<>>, function_result |-> <<>>,
   executed |-> <<>>, ai_responses |-> <<>>]

\* a call of handle_ai_conversation that has not started
Calls == {"c1", "c2"}
IdleCall ==
  [pc |-> "idle", user_message |-> <<>>, conversation_history |-> <<>>,
   raised |-> FALSE, model_output |-> <<>>, full_ai_response |-> <<>>,
   function_result |-> <<>>, ai_responses |-> <<>>, current_history |-> <<>>]

\* no replies are being sent
NoOutbox ==
  [pc |-> "off", chat_identifier |-> NULL, responses_to_send |-> <<>>,
   sent |-> <<>>, raised |-> FALSE, success |-> TRUE]

\* no call of _handle_otp_provided
NoRetry ==
  [pc |-> "off", otp_code |-> NULL, attempt |-> 0, lookups |-> 0, slept |-> <<>>,
   found_at |-> 0, user_with_profile |-> NoUser, reply |-> "none"]

\* the endpoint before any request
NoEndpoint == [WEBHOOK_SHARED_SECRET |-> NULL, answers |-> <<>>]

\* the result dictionary of a GoogleIntegrationService call that was not made
NoResult == [success |-> TRUE, error |-> <<>>, message |-> <<>>]
\* no answer of the prod-web API
NoResponse == [kind |-> "none", status_code |-> 0, text |-> <<>>]
\* no function call is on its way to the action provider
NoProvider ==
  [pc |-> "off", function |-> NULL, clean_response |-> <<>>, requests |-> 0,
   response |-> NoResponse, result |-> NoResult, function_result |-> <<>>,
   ai_responses |-> <<>>]

\* no call of _parse_natural_datetime
NoEvent ==
  [pc |-> "off", now |-> 0, time_str |-> <<>>, duration_str |-> <<>>,
   start_time |-> 0, end_time |-> 0]

VARIABLES
  bb_events,      \* table bb_events: the stored webhook events, keyed by id
  auth_users,     \* auth.users: sequence of emails, the index is the user id
  user_profiles,  \* the user_profiles row of the phone number, or NoRow
  otp_pending,    \* emails the auth provider holds an unused OTP for
  task,           \* the webhook-handling tasks
  deliveries,     \* number of webhooks received
  conversation,   \* a conversation history handed to _conversation_to_string
  history_string, \* the string stored in user_profiles.conversation_history
  parsed,         \* what _parse_conversation_string reads back from it
  cpc,            \* "new", "stored", "parsed", "truncated" or "kept"
  remaining,      \* the history handle_ai_conversation goes on with
  interp,         \* one model output on its way through the function interpreter
  conv,           \* the calls of handle_ai_conversation for the user
  outbox,         \* the replies of one webhook on their way to the transport
  endpoint,       \* the webhook endpoint: its secret and the answers it gave
  retry,          \* one call of _handle_otp_provided
  provider,       \* one function call on its way to the action provider
  event           \* one call of _parse_natural_datetime

\* the variables of the other parts of the service at rest
RestMore == retry = NoRetry /\ provider = NoProvider /\ event = NoEvent
RestNew ==
  /\ conv = [c \in Calls |-> IdleCall] /\ outbox = NoOutbox /\ endpoint = NoEndpoint
  /\ RestMore

onbVars == <<bb_events, auth_users, user_profiles, otp_pending, task, deliveries>>
moreVars == <<retry, provider, event>>
newVars == <<conv, outbox, endpoint, moreVars>>
auxVars == <<remaining, interp, newVars>>
convVars == <<conversation, history_string, parsed, cpc, auxVars>>
vars == <<onbVars, convVars>>

Active(t) == task[t].pc \notin {"idle", "done"}

\* rows an update(...).eq("id", uid) touches
Matches(uid) == user_profiles.exists /\ user_profiles.id = uid

Goto(t, pc) == [task EXCEPT ![t].pc = pc]
\* the handler returns reply text r; the router then sends it
Finish(t, r) == [task EXCEPT ![t].pc = "respond", ![t].reply = r]

\* ------------------------------------------------------------------ Init
\* The store when the service starts: no user yet, a user waiting for the
\* OTP, or a verified user whose integrations are pending.
InitStores ==
  { [auth |-> <<>>, row |-> NoRow, otp |-> {}],
    [auth |-> <<"e1">>,
     row |-> [NewRow(1, "e1") EXCEPT !.onboarding_state = "awaiting_email_otp"],
     otp |-> {"e1"}],
    [auth |-> <<"e1">>,
     row |-> [NewRow(1, "e1") EXCEPT !.onboarding_state = "awaiting_integrations",
                                     !.email_verified = TRUE],
     otp |-> {"e1"}] }

Init ==
  /\ bb_events = {}
  /\ \E s \in InitStores :
       /\ auth_users = s.auth
       /\ user_profiles = s.row
       /\ otp_pending = s.otp
  /\ task = [t \in Tasks |-> IdleTask]
  /\ deliveries = 0
  /\ conversation = <<>> /\ history_string = <<>> /\ parsed = <<>> /\ cpc = "new"
  /\ remaining = <<>> /\ interp = NoInterp /\ RestNew

\* ------------------------------------------------- the webhook endpoint
\* The slot a new task takes: the first one that is not handling a webhook.
FreeSlot(t) ==
  /\ ~Active(t)
  /\ \A u \in Tasks : (u = "t1" /\ t = "t2") => Active(u)

\* an insert that does not look for a row with the id
insert_webhook_event_plain(event_id, headers, raw) ==
  bb_events \cup {[id |-> event_id, headers |-> headers, payload |-> raw]}

\* receive_bluebubbles_webhook: the event is upserted under its id and the
\* payload is handed to process_webhook_message, for a first delivery and
\* for a repeated one alike.
insert_webhook_event(event_id, headers, raw) ==
  {e \in bb_events : e.id # event_id}
    \cup {[id |-> event_id, headers |-> headers, payload |-> raw]}

ReceiveWebhook(t) ==
  /\ FreeSlot(t)
  /\ deliveries < MaxDeliveries
  /\ \E raw \in { Payload(deliveries + 1, "msg", x) : x \in Texts }
            \cup { Payload(deliveries + 1, k, <<"hi">>) : k \in PayloadKinds \ {"msg"} }
            \cup { e.payload : e \in bb_events } :
       /\ bb_events' = insert_webhook_event(generate_event_id(raw), NULL, raw)
       /\ task' = [u \in Tasks |->
            IF u = t
              THEN [IdleTask EXCEPT !.pc = "lookup", !.payload = raw,
                                    !.overlap = \E v \in Tasks \ {t} : Active(v)]
            ELSE IF Active(u) THEN [task[u] EXCEPT !.overlap = TRUE]
            ELSE task[u]]
  /\ deliveries' = deliveries + 1
  /\ UNCHANGED <<auth_users, user_profiles, otp_pending>>
  /\ UNCHANGED convVars

\* ------------------------------------------------------------- routing
\* get_user_by_phone_number: the profile row and its auth user (the columns
\* google and canvas are read by check_and_complete_onboarding alone, from its
\* own select, so the looked-up copy does not keep them)
get_user_by_phone_number ==
  IF user_profiles.exists
    THEN [profile |-> [user_profiles EXCEPT !.google = FALSE, !.canvas = FALSE],
          auth_email |-> auth_users[user_profiles.id]]
    ELSE NoUser

\* a workflow that looks for the code before it looks for an email
ExistingRoute_code_first(p, text) ==
  IF IsRestart(text) THEN [pc |-> "restart_state", reply |-> "none"]
  ELSE IF p.onboarding_state = "awaiting_email_otp" /\ _extract_otp_from_text(text) # NULL
    THEN [pc |-> "otp_verify", reply |-> "none"]
  ELSE IF _extract_email_from_text(text) # NULL THEN [pc |-> "ep_auth", reply |-> "none"]
  ELSE IF /\ p.email # NULL
          /\ p.onboarding_state # "awaiting_email_otp"
          /\ p.email # TempEmail
    THEN [pc |-> "re_state", reply |-> "none"]
  ELSE IF p.onboarding_state = "not_started" THEN [pc |-> "ns_state", reply |-> "none"]
  ELSE IF p.onboarding_state = "awaiting_email"
    THEN [pc |-> "respond", reply |-> "no_email_found"]
  ELSE IF p.onboarding_state = "awaiting_email_otp"
    THEN [pc |-> "respond", reply |-> "enter_code"]
  ELSE [pc |-> "restart_state", reply |-> "none"]

\* _handle_existing_user_workflow up to its first write or its reply
ExistingRoute(p, text) ==
  IF IsRestart(text) THEN [pc |-> "restart_state", reply |-> "none"]
  ELSE IF _extract_email_from_text(text) # NULL THEN [pc |-> "ep_auth", reply |-> "none"]
  ELSE IF /\ p.email # NULL
          /\ p.onboarding_state # "awaiting_email_otp"
          /\ p.email # TempEmail
    THEN [pc |-> "re_state", reply |-> "none"]
  ELSE IF p.onboarding_state = "not_started" THEN [pc |-> "ns_state", reply |-> "none"]
  ELSE IF p.onboarding_state = "awaiting_email"
    THEN [pc |-> "respond", reply |-> "no_email_found"]
  ELSE IF p.onboarding_state = "awaiting_email_otp"
    THEN IF _extract_otp_from_text(text) # NULL
           THEN [pc |-> "otp_verify", reply |-> "none"]
           ELSE [pc |-> "respond", reply |-> "enter_code"]
  ELSE [pc |-> "restart_state", reply |-> "none"]

\* _handle_new_user_workflow up to its first call or its reply
NewRoute(text) ==
  IF IsRestart(text) THEN [pc |-> "respond", reply |-> "fresh_start"]
  ELSE [pc |-> "cr_phone", reply |-> "none"]

\* the branch taken when the verification flags of the profile are not looked at
Route_unchecked(eu, text) ==
  IF eu.profile.exists
    THEN [pc |-> "ai", reply |-> "none"]
    ELSE NewRoute(text)

\* the branch process_webhook_message takes on the user it looked up
Route(eu, text) ==
  IF eu.profile.exists
    THEN IF eu.profile.email_verified /\ eu.profile.onboarding_completed
           THEN [pc |-> "ai", reply |-> "none"]
         ELSE IF eu.profile.email_verified
           THEN [pc |-> "integ_read", reply |-> "none"]
         ELSE ExistingRoute(eu.profile, text)
    ELSE NewRoute(text)

\* the email the handler works with: the one of the text, or the temporary
\* one a new user without an email is created with
WorkEmail(eu, text) ==
  IF _extract_email_from_text(text) # NULL THEN _extract_email_from_text(text)
  ELSE IF ~eu.profile.exists THEN TempEmail
  ELSE NULL

Lookup(t) ==
  /\ task[t].pc = "lookup"
  /\ LET pl == task[t].payload
         eu == get_user_by_phone_number
         r  == Route(eu, pl.text)
     IN task' = [task EXCEPT ![t] =
          IF pl.kind \in {"self", "typing"}
            THEN [@ EXCEPT !.pc = "done", !.success = TRUE]
          ELSE IF pl.kind = "nophone"
            THEN [@ EXCEPT !.pc = "done", !.success = FALSE]
          ELSE [@ EXCEPT !.pc = r.pc, !.reply = r.reply, !.existing_user = eu,
                         !.email = WorkEmail(eu, pl.text),
                         !.uid = eu.profile.id,
                         !.new_user = ~eu.profile.exists]]
  /\ UNCHANGED <<bb_events, auth_users, user_profiles, otp_pending, deliveries>>
  /\ UNCHANGED convVars

\* ------------------------------------------------ writes of user_profiles
\* _update_onboarding_state: update({"onboarding_state": state}).eq("id", user_id)
_update_onboarding_state(row, state) == [row EXCEPT !.onboarding_state = state]

\* an update of the email that matches no row
_store_email_nowhere(row, email) == row

\* _store_email_in_profile and the email-clearing update of the restart
_store_email_in_profile(row, email) == [row EXCEPT !.email = email]

\* a _mark_email_verified whose update is filtered by the id alone
MarkFilter_IdOnly(uid) == Matches(uid)

\* the row filter of _mark_email_verified: .eq("id", user_id).eq("email_verified", False)
MarkFilter(uid) == Matches(uid) /\ user_profiles.email_verified = FALSE

\* a _mark_email_verified that writes the update_data of _complete_onboarding
_mark_email_verified_completes(row) ==
  [row EXCEPT !.email_verified = TRUE, !.onboarding_state = "completed",
              !.onboarding_completed = TRUE]

\* update_data of _mark_email_verified
_mark_email_verified(row) ==
  [row EXCEPT !.email_verified = TRUE, !.onboarding_state = "awaiting_integrations"]

\* an update_data that sets the flag and leaves onboarding_state as it is
_complete_onboarding_flag_only(row) == [row EXCEPT !.onboarding_completed = TRUE]

\* update_data of _complete_onboarding_with_integrations
_complete_onboarding_with_integrations(row) ==
  [row EXCEPT !.onboarding_completed = TRUE, !.onboarding_state = "completed"]

\* the update create_authenticated_user makes to a profile that already exists
CreateUpdateRow(row, email) ==
  [row EXCEPT !.email = email, !.onboarding_completed = FALSE,
              !.onboarding_state = "not_started", !.email_verified = FALSE]

\* --------------------------------------- _restart_verification_process
RestartState(t) ==
  /\ task[t].pc = "restart_state"
  /\ IF Matches(task[t].uid)
       THEN /\ user_profiles' = _update_onboarding_state(user_profiles, "awaiting_email")
            /\ task' = Goto(t, "restart_email")
       ELSE /\ task' = Finish(t, "restart_error")
            /\ UNCHANGED user_profiles
  /\ UNCHANGED <<bb_events, auth_users, otp_pending, deliveries>>
  /\ UNCHANGED convVars

RestartEmail(t) ==
  /\ task[t].pc = "restart_email"
  /\ user_profiles' = IF Matches(task[t].uid)
                        THEN _store_email_in_profile(user_profiles, NULL)
                        ELSE user_profiles
  /\ task' = Finish(t, "restart_ok")
  /\ UNCHANGED <<bb_events, auth_users, otp_pending, deliveries>>
  /\ UNCHANGED convVars

\* ------------------------------------- _handle_email_provided_existing
\* admin_auth.update_user_by_id(auth_user_id, {"email": email}): refused when
\* another auth user holds the email
EpAuth(t) ==
  /\ task[t].pc = "ep_auth"
  /\ IF \E i \in 1..Len(auth_users) : i # task[t].uid /\ auth_users[i] = task[t].email
       THEN /\ task' = Finish(t, "email_error")
            /\ UNCHANGED auth_users
       ELSE /\ auth_users' = [auth_users EXCEPT ![task[t].uid] = task[t].email]
            /\ task' = Goto(t, "ep_store")
  /\ UNCHANGED <<bb_events, user_profiles, otp_pending, deliveries>>
  /\ UNCHANGED convVars

EpStore(t) ==
  /\ task[t].pc = "ep_store"
  /\ IF Matches(task[t].uid)
       THEN /\ user_profiles' = _store_email_in_profile(user_profiles, task[t].email)
            /\ task' = Goto(t, "ep_state")
       ELSE /\ task' = Finish(t, "email_error")
            /\ UNCHANGED user_profiles
  /\ UNCHANGED <<bb_events, auth_users, otp_pending, deliveries>>
  /\ UNCHANGED convVars

EpState(t) ==
  /\ task[t].pc = "ep_state"
  /\ IF Matches(task[t].uid)
       THEN /\ user_profiles' = _update_onboarding_state(user_profiles, "awaiting_email_otp")
            /\ task' = Goto(t, "ep_send")
       ELSE /\ task' = Finish(t, "email_error")
            /\ UNCHANGED user_profiles
  /\ UNCHANGED <<bb_events, auth_users, otp_pending, deliveries>>
  /\ UNCHANGED convVars

\* a _send_email_otp that calls sign_in_with_otp again when the call raises
_send_email_otp_again(t, email, ok, sent, failed) ==
  /\ otp_pending' = IF ok THEN otp_pending \cup {email} ELSE otp_pending
  /\ task' = [task EXCEPT ![t].pc = "respond",
                          ![t].reply = IF ok THEN sent ELSE failed,
                          ![t].otps = IF ok THEN @ + 1 ELSE @ + 2]

\* _send_email_otp: sign_in_with_otp succeeds or raises
_send_email_otp(t, email, ok, sent, failed) ==
  /\ otp_pending' = IF ok THEN otp_pending \cup {email} ELSE otp_pending
  /\ task' = [task EXCEPT ![t].pc = "respond",
                          ![t].reply = IF ok THEN sent ELSE failed,
                          ![t].otps = @ + 1]

EpSend(t) ==
  /\ task[t].pc = "ep_send"
  /\ \E ok \in BOOLEAN : _send_email_otp(t, task[t].email, ok, "otp_sent", "send_failed")
  /\ UNCHANGED <<bb_events, auth_users, user_profiles, deliveries>>
  /\ UNCHANGED convVars

\* ----------- _handle_existing_user_workflow: the email is already stored
ReState(t) ==
  /\ task[t].pc = "re_state"
  /\ IF Matches(task[t].uid)
       THEN /\ user_profiles' = _update_onboarding_state(user_profiles, "awaiting_email_otp")
            /\ task' = Goto(t, "re_send")
       ELSE /\ task' = Finish(t, "workflow_error")
            /\ UNCHANGED user_profiles
  /\ UNCHANGED <<bb_events, auth_users, otp_pending, deliveries>>
  /\ UNCHANGED convVars

ReSend(t) ==
  /\ task[t].pc = "re_send"
  /\ \E ok \in BOOLEAN :
       _send_email_otp(t, task[t].existing_user.profile.email, ok, "otp_sent", "send_failed")
  /\ UNCHANGED <<bb_events, auth_users, user_profiles, deliveries>>
  /\ UNCHANGED convVars

\* ----------- _handle_existing_user_workflow: not_started without an email
NsState(t) ==
  /\ task[t].pc = "ns_state"
  /\ IF Matches(task[t].uid)
       THEN /\ user_profiles' = _update_onboarding_state(user_profiles, "awaiting_email")
            /\ task' = Finish(t, "prompt_email")
       ELSE /\ task' = Finish(t, "workflow_error")
            /\ UNCHANGED user_profiles
  /\ UNCHANGED <<bb_events, auth_users, otp_pending, deliveries>>
  /\ UNCHANGED convVars

\* ------------------------------------ _handle_otp_verification_existing
\* user_email = existing_user.auth_user.email or existing_user.profile.email
VerifyEmail(eu) == IF eu.auth_email # NULL THEN eu.auth_email ELSE eu.profile.email

\* what verify_otp can answer: it accepts only the code it sent to the email
\* (two verifications in flight may both be accepted), and it can always refuse
_verify_otp_code(email, code) ==
  IF code = GoodCode /\ email \in otp_pending THEN BOOLEAN ELSE {FALSE}

OtpVerify(t) ==
  /\ task[t].pc = "otp_verify"
  /\ LET user_email == VerifyEmail(task[t].existing_user)
         otp_code   == _extract_otp_from_text(task[t].payload.text)
     IN IF user_email = NULL
          THEN task' = Finish(t, "no_email")
          ELSE \E accepted \in _verify_otp_code(user_email, otp_code) :
                 task' = IF accepted THEN Goto(t, "mark_update")
                                     ELSE Finish(t, "invalid_code")
  /\ UNCHANGED <<bb_events, auth_users, user_profiles, otp_pending, deliveries>>
  /\ UNCHANGED convVars

\* _mark_email_verified: the conditional update
MarkUpdate(t) ==
  /\ task[t].pc = "mark_update"
  /\ IF MarkFilter(task[t].uid)
       THEN /\ user_profiles' = _mark_email_verified(user_profiles)
            /\ task' = Finish(t, "verified")
       ELSE /\ task' = Goto(t, "mark_reread")
            /\ UNCHANGED user_profiles
  /\ UNCHANGED <<bb_events, auth_users, otp_pending, deliveries>>
  /\ UNCHANGED convVars

\* _mark_email_verified: the re-read after an update that matched no row
MarkReread(t) ==
  /\ task[t].pc = "mark_reread"
  /\ task' = IF Matches(task[t].uid) /\ user_profiles.email_verified
               THEN Finish(t, "verified")
               ELSE Finish(t, "verify_error")
  /\ UNCHANGED <<bb_events, auth_users, user_profiles, otp_pending, deliveries>>
  /\ UNCHANGED convVars

\* ---------------------------------------------- check_and_complete_onboarding
IntegRead(t) ==
  /\ task[t].pc = "integ_read"
  /\ task' =
       IF ~Matches(task[t].uid) THEN Finish(t, "dashboard_prompt")
       ELSE IF user_profiles.onboarding_completed THEN Goto(t, "ai")
       ELSE IF ~user_profiles.email_verified THEN Finish(t, "dashboard_prompt")
       ELSE IF user_profiles.google /\ user_profiles.canvas THEN Goto(t, "integ_write")
       ELSE Finish(t, "dashboard_prompt")
  /\ UNCHANGED <<bb_events, auth_users, user_profiles, otp_pending, deliveries>>
  /\ UNCHANGED convVars

IntegWrite(t) ==
  /\ task[t].pc = "integ_write"
  /\ IF Matches(task[t].uid)
       THEN /\ user_profiles' = _complete_onboarding_with_integrations(user_profiles)
            /\ task' = Goto(t, "ai")
       ELSE /\ task' = Finish(t, "dashboard_prompt")
            /\ UNCHANGED user_profiles
  /\ UNCHANGED <<bb_events, auth_users, otp_pending, deliveries>>
  /\ UNCHANGED convVars

\* _handle_ai_conversation: the reply list of the conversation service
Ai(t) ==
  /\ task[t].pc = "ai"
  /\ task' = Finish(t, "ai")
  /\ UNCHANGED <<bb_events, auth_users, user_profiles, otp_pending, deliveries>>
  /\ UNCHANGED convVars

\* The dashboard (outside this service) links an integration of a verified
\* user.  Only the select of check_and_complete_onboarding reads the two
\* columns, so a link is taken when a task is about to make that select.
DashboardLink ==
  /\ user_profiles.exists /\ user_profiles.email_verified
  /\ \E t \in Tasks : task[t].pc = "integ_read"
  /\ \/ ~user_profiles.google /\ user_profiles' = [user_profiles EXCEPT !.google = TRUE]
     \/ ~user_profiles.canvas /\ user_profiles' = [user_profiles EXCEPT !.canvas = TRUE]
  /\ UNCHANGED <<bb_events, auth_users, otp_pending, task, deliveries>>
  /\ UNCHANGED convVars

\* ------------------------------------------------ create_authenticated_user
\* _handle_new_user_workflow after create_authenticated_user returned user id
AfterCreate(t, id) ==
  IF _extract_email_from_text(task[t].payload.text) # NULL
    THEN [task EXCEPT ![t].pc = "nu_store", ![t].uid = id]
    ELSE [task EXCEPT ![t].pc = "respond", ![t].uid = id, ![t].reply = "welcome_prompt"]

\* existing_by_phone
CrPhone(t) ==
  /\ task[t].pc = "cr_phone"
  /\ task' = IF user_profiles.exists THEN AfterCreate(t, user_profiles.id)
                                    ELSE Goto(t, "cr_email")
  /\ UNCHANGED <<bb_events, auth_users, user_profiles, otp_pending, deliveries>>
  /\ UNCHANGED convVars

\* a get_user_by_email that finds no profile
get_user_by_email_none(email) == NoUser

\* get_user_by_email: the profile row that holds the email and its auth user
get_user_by_email(email) ==
  IF user_profiles.exists /\ user_profiles.email = email
    THEN [profile |-> [user_profiles EXCEPT !.google = FALSE, !.canvas = FALSE],
          auth_email |-> auth_users[user_profiles.id]]
    ELSE NoUser

\* existing_by_email
CrEmail(t) ==
  /\ task[t].pc = "cr_email"
  /\ task' = IF get_user_by_email(task[t].email).profile.exists
               THEN AfterCreate(t, get_user_by_email(task[t].email).profile.id)
               ELSE Goto(t, "cr_auth")
  /\ UNCHANGED <<bb_events, auth_users, user_profiles, otp_pending, deliveries>>
  /\ UNCHANGED convVars

\* the id admin_auth.create_user answers with, or the id of the auth user that
\* already holds the email ("already been registered")
AuthIdFor(email) ==
  IF \E i \in 1..Len(auth_users) : auth_users[i] = email
    THEN CHOOSE i \in 1..Len(auth_users) :
           auth_users[i] = email /\ \A j \in 1..(i-1) : auth_users[j] # email
    ELSE Len(auth_users) + 1

CrAuth(t) ==
  /\ task[t].pc = "cr_auth"
  /\ auth_users' = IF AuthIdFor(task[t].email) > Len(auth_users)
                     THEN Append(auth_users, task[t].email)
                     ELSE auth_users
  /\ task' = [task EXCEPT ![t].pc = "cr_check", ![t].uid = AuthIdFor(task[t].email)]
  /\ UNCHANGED <<bb_events, user_profiles, otp_pending, deliveries>>
  /\ UNCHANGED convVars

\* the select of the profile by the auth user's id
CrCheck(t) ==
  /\ task[t].pc = "cr_check"
  /\ task' = IF Matches(task[t].uid) THEN Goto(t, "cr_update") ELSE Goto(t, "cr_insert")
  /\ UNCHANGED <<bb_events, auth_users, user_profiles, otp_pending, deliveries>>
  /\ UNCHANGED convVars

CrUpdate(t) ==
  /\ task[t].pc = "cr_update"
  /\ IF Matches(task[t].uid)
       THEN /\ user_profiles' = CreateUpdateRow(user_profiles, task[t].email)
            /\ task' = AfterCreate(t, task[t].uid)
       ELSE /\ task' = Finish(t, "setup_error")
            /\ UNCHANGED user_profiles
  /\ UNCHANGED <<bb_events, auth_users, otp_pending, deliveries>>
  /\ UNCHANGED convVars

CrInsert(t) ==
  /\ task[t].pc = "cr_insert"
  /\ IF user_profiles.exists
       THEN /\ task' = Goto(t, "cr_conflict")
            /\ UNCHANGED user_profiles
       ELSE /\ user_profiles' = NewRow(task[t].uid, task[t].email)
            /\ task' = AfterCreate(t, task[t].uid)
  /\ UNCHANGED <<bb_events, auth_users, otp_pending, deliveries>>
  /\ UNCHANGED convVars

\* the duplicate-key handler: fetch the user another request created
CrConflict(t) ==
  /\ task[t].pc = "cr_conflict"
  /\ task' = IF user_profiles.exists THEN AfterCreate(t, user_profiles.id)
                                    ELSE Finish(t, "setup_error")
  /\ UNCHANGED <<bb_events, auth_users, user_profiles, otp_pending, deliveries>>
  /\ UNCHANGED convVars

\* _handle_new_user_workflow: store the email and send the OTP
NuStore(t) ==
  /\ task[t].pc = "nu_store"
  /\ IF Matches(task[t].uid)
       THEN /\ user_profiles' = _store_email_in_profile(user_profiles, task[t].email)
            /\ task' = Goto(t, "nu_send")
       ELSE /\ task' = Finish(t, "setup_error")
            /\ UNCHANGED user_profiles
  /\ UNCHANGED <<bb_events, auth_users, otp_pending, deliveries>>
  /\ UNCHANGED convVars

NuSend(t) ==
  /\ task[t].pc = "nu_send"
  /\ \E ok \in BOOLEAN : _send_email_otp(t, task[t].email, ok, "otp_sent", "send_failed")
  /\ UNCHANGED <<bb_events, auth_users, user_profiles, deliveries>>
  /\ UNCHANGED convVars

\* ------------------------------------------------------------ the reply
\* process_webhook_message sends the reply through the transport; a failed
\* send makes the handling report success = false
Respond(t) ==
  /\ task[t].pc = "respond"
  /\ \E sent \in BOOLEAN :
       task' = [task EXCEPT ![t] =
                  [IdleTask EXCEPT !.pc = "done", !.success = sent,
                                   !.payload = task[t].payload, !.reply = task[t].reply,
                                   !.otps = task[t].otps, !.overlap = task[t].overlap,
                                   !.new_user = task[t].new_user]]
  /\ UNCHANGED <<bb_events, auth_users, user_profiles, otp_pending, deliveries>>
  /\ UNCHANGED convVars

\* ------------------------------------------------------------------ Next
Next ==
  \/ \E t \in Tasks : ReceiveWebhook(t)
  \/ \E t \in Tasks : Lookup(t)
  \/ \E t \in Tasks : RestartState(t)
  \/ \E t \in Tasks : RestartEmail(t)
  \/ \E t \in Tasks : EpAuth(t)
  \/ \E t \in Tasks : EpStore(t)
  \/ \E t \in Tasks : EpState(t)
  \/ \E t \in Tasks : EpSend(t)
  \/ \E t \in Tasks : ReState(t)
  \/ \E t \in Tasks : ReSend(t)
  \/ \E t \in Tasks : NsState(t)
  \/ \E t \in Tasks : OtpVerify(t)
  \/ \E t \in Tasks : MarkUpdate(t)
  \/ \E t \in Tasks : MarkReread(t)
  \/ \E t \in Tasks : IntegRead(t)
  \/ \E t \in Tasks : IntegWrite(t)
  \/ \E t \in Tasks : Ai(t)
  \/ \E t \in Tasks : CrPhone(t)
  \/ \E t \in Tasks : CrEmail(t)
  \/ \E t \in Tasks : CrAuth(t)
  \/ \E t \in Tasks : CrCheck(t)
  \/ \E t \in Tasks : CrUpdate(t)
  \/ \E t \in Tasks : CrInsert(t)
  \/ \E t \in Tasks : CrConflict(t)
  \/ \E t \in Tasks : NuStore(t)
  \/ \E t \in Tasks : NuSend(t)
  \/ \E t \in Tasks : Respond(t)
  \/ DashboardLink

Spec == Init /\ [][Next]_vars

\* ------------------------------------------- the conversation history string
\* A string is a sequence of characters; a role name is one character of it.
Chars == {"a", "|", "\n", " "}
Roles == {<<"user">>, <<"assistant">>}
IsSpace(c) == c \in {" ", "\n"}

RECURSIVE LStrip(_)
LStrip(str) ==
  IF str # <<>> /\ IsSpace(Head(str)) THEN LStrip(Tail(str)) ELSE str

RECURSIVE RStrip(_)
RStrip(str) ==
  IF str # <<>> /\ IsSpace(str[Len(str)])
    THEN RStrip(SubSeq(str, 1, Len(str) - 1))
    ELSE str

\* str.strip()
Strip(str) == RStrip(LStrip(str))

\* index of the first c in str, or 0
Find(str, c) ==
  IF \E i \in 1..Len(str) : str[i] = c
    THEN CHOOSE i \in 1..Len(str) : str[i] = c /\ \A j \in 1..(i-1) : str[j] # c
    ELSE 0

\* str.split(sep)
RECURSIVE Split(_, _)
Split(str, sep) ==
  IF Find(str, sep) = 0 THEN <<str>>
  ELSE <<SubSeq(str, 1, Find(str, sep) - 1)>>
         \o Split(SubSeq(str, Find(str, sep) + 1, Len(str)), sep)

\* sep.join(parts)
RECURSIVE Join(_, _)
Join(parts, sep) ==
  IF parts = <<>> THEN <<>>
  ELSE IF Len(parts) = 1 THEN parts[1]
  ELSE parts[1] \o <<sep>> \o Join(Tail(parts), sep)

\* part = f"{msg.role}|{msg.content}"; "\n".join(conversation_parts)
_conversation_to_string(conversation_history) ==
  Join([i \in 1..Len(conversation_history) |->
          conversation_history[i].role \o <<"|">> \o conversation_history[i].content],
       "\n")

\* the messages of the lines that are not blank and hold a "|"
RECURSIVE ParseLines(_)
ParseLines(lines) ==
  IF lines = <<>> THEN <<>>
  ELSE LET line == Head(lines)
           bar  == Find(line, "|")
       IN IF Strip(line) = <<>> \/ bar = 0
            THEN ParseLines(Tail(lines))
            ELSE <<[role |-> SubSeq(line, 1, bar - 1),
                    content |-> SubSeq(line, bar + 1, Len(line))]>>
                   \o ParseLines(Tail(lines))

_parse_conversation_string(str) ==
  IF Strip(str) = <<>> THEN <<>>
  ELSE ParseLines(Split(Strip(str), "\n"))

\* the contents and the conversations that are serialised
Contents == UNION { [1..n -> Chars] : n \in 0..MaxContentLen }
Messages == { [role |-> r, content |-> c] : r \in Roles, c \in Contents }
Conversations == UNION { [1..n -> Messages] : n \in 0..MaxTurns }

InitTranscript ==
  /\ conversation \in Conversations
  /\ history_string = <<>> /\ parsed = <<>> /\ cpc = "new"
  /\ remaining = <<>> /\ interp = NoInterp /\ RestNew
  /\ bb_events = {} /\ auth_users = <<>> /\ user_profiles = NoRow /\ otp_pending = {}
  /\ task = [t \in Tasks |-> IdleTask]
  /\ deliveries = 0

\* _store_conversation_messages / _update_stored_conversation_history: the
\* history is written as one string
StoreHistory ==
  /\ cpc = "new"
  /\ history_string' = _conversation_to_string(conversation)
  /\ cpc' = "stored"
  /\ UNCHANGED <<conversation, parsed>>
  /\ UNCHANGED <<onbVars, auxVars>>

\* _get_conversation_history: the stored string is parsed back
LoadHistory ==
  /\ cpc = "stored"
  /\ parsed' = _parse_conversation_string(history_string)
  /\ cpc' = "parsed"
  /\ UNCHANGED <<conversation, history_string>>
  /\ UNCHANGED <<onbVars, auxVars>>

NextTranscript == StoreHistory \/ LoadHistory

SpecTranscript == InitTranscript /\ [][NextTranscript]_vars

\* ============================================== the token budget of a call
\* self.max_tokens, the budget B (5000 by default)
max_tokens == 5

\* _count_tokens: the number of tokens of a content; a character of the
\* model's contents is one token
_count_tokens(content) == Len(content)

RECURSIVE TotalTokens(_)
TotalTokens(history) ==
  IF history = <<>> THEN 0
  ELSE _count_tokens(Head(history).content) + TotalTokens(Tail(history))

\* a _truncate_context that pops the oldest turn whatever the length
RECURSIVE _truncate_context_no_floor(_)
_truncate_context_no_floor(conversation_history) ==
  IF TotalTokens(conversation_history) * 10 > max_tokens * 7
       /\ conversation_history # <<>>
    THEN _truncate_context_no_floor(Tail(conversation_history))
    ELSE conversation_history

\* _truncate_context: while total_tokens > max_tokens * 0.7, stop at two
\* messages or less, else pop the oldest one
RECURSIVE _truncate_context(_)
_truncate_context(conversation_history) ==
  IF TotalTokens(conversation_history) * 10 > max_tokens * 7
    THEN IF Len(conversation_history) <= 2
           THEN conversation_history
           ELSE _truncate_context(Tail(conversation_history))
    ELSE conversation_history

\* the histories that are truncated: turns of 0..MaxTurnTokens tokens
TokenContents == { [i \in 1..n |-> "a"] : n \in 0..MaxTurnTokens }
TokenMessages == { [role |-> r, content |-> c] : r \in Roles, c \in TokenContents }
TokenHistories == UNION { [1..n -> TokenMessages] : n \in 1..MaxHistory }

InitTruncate ==
  /\ conversation \in TokenHistories
  /\ history_string =
       _conversation_to_string(SubSeq(conversation, 1, Len(conversation) - 1))
  /\ parsed = <<>> /\ cpc = "new" /\ remaining = <<>> /\ interp = NoInterp /\ RestNew
  /\ bb_events = {} /\ auth_users = <<>> /\ user_profiles = NoRow /\ otp_pending = {}
  /\ task = [t \in Tasks |-> IdleTask]
  /\ deliveries = 0

\* handle_ai_conversation, total_tokens > self.max_tokens: the history is
\* truncated and the truncated history is stored
TruncateContext ==
  /\ cpc = "new"
  /\ TotalTokens(conversation) > max_tokens
  /\ remaining' = _truncate_context(conversation)
  /\ history_string' = _conversation_to_string(_truncate_context(conversation))
  /\ cpc' = "truncated"
  /\ UNCHANGED <<conversation, parsed>>
  /\ UNCHANGED <<onbVars, interp, newVars>>

\* handle_ai_conversation, total_tokens <= self.max_tokens
KeepContext ==
  /\ cpc = "new"
  /\ TotalTokens(conversation) <= max_tokens
  /\ remaining' = conversation
  /\ cpc' = "kept"
  /\ UNCHANGED <<conversation, history_string, parsed>>
  /\ UNCHANGED <<onbVars, interp, newVars>>

NextTruncate == TruncateContext \/ KeepContext

SpecTruncate == InitTruncate /\ [][NextTruncate]_vars

\* ================================================ the function interpreter
\* A model output is a sequence of characters: "a" a character of prose, " "
\* and "\n", "#" the fence of three backticks, "j" the word json, "{" and "}", "F" the
\* members "function": "DRAFT_EMAIL" and "U" the members of a function name
\* the interpreter does not know.  A pair "{" "}" after "F" or "U" is the
\* params object.

\* first index >= k that holds no whitespace, Len(text) + 1 if there is none
RECURSIVE SkipSpace(_, _)
SkipSpace(text, k) ==
  IF k <= Len(text) /\ IsSpace(text[k]) THEN SkipSpace(text, k + 1) ELSE k

\* a closing brace, whitespace and the fence at index e
ClosesAt(text, e) ==
  /\ e <= Len(text) /\ text[e] = "}"
  /\ SkipSpace(text, e + 1) <= Len(text)
  /\ text[SkipSpace(text, e + 1)] = "#"

\* the fence, json, whitespace and an opening brace at index i, and some
\* later closing brace, whitespace and fence
OpensAt(text, i) ==
  /\ i + 1 <= Len(text) /\ text[i] = "#" /\ text[i + 1] = "j"
  /\ SkipSpace(text, i + 2) <= Len(text)
  /\ text[SkipSpace(text, i + 2)] = "{"
  /\ \E e \in (SkipSpace(text, i + 2) + 1)..Len(text) : ClosesAt(text, e)

\* a search that takes the last place where the pattern matches
re_search_last(text) ==
  IF \E i \in 1..Len(text) : OpensAt(text, i)
    THEN LET i == CHOOSE i \in 1..Len(text) :
                    OpensAt(text, i) /\ \A k \in (i + 1)..Len(text) : ~OpensAt(text, k)
             b == SkipSpace(text, i + 2)
             e == CHOOSE e \in (b + 1)..Len(text) :
                    ClosesAt(text, e) /\ \A k \in (b + 1)..(e - 1) : ~ClosesAt(text, k)
         IN [found |-> TRUE, start |-> i, group1 |-> SubSeq(text, b, e),
             end |-> SkipSpace(text, e + 1)]
    ELSE [found |-> FALSE, start |-> 0, group1 |-> <<>>, end |-> 0]

\* re.search of the fenced block pattern with re.DOTALL: the leftmost match,
\* of which the lazy group takes the shortest text that lets the rest match
re_search(text) ==
  IF \E i \in 1..Len(text) : OpensAt(text, i)
    THEN LET i == CHOOSE i \in 1..Len(text) :
                    OpensAt(text, i) /\ \A k \in 1..(i - 1) : ~OpensAt(text, k)
             b == SkipSpace(text, i + 2)
             e == CHOOSE e \in (b + 1)..Len(text) :
                    ClosesAt(text, e) /\ \A k \in (b + 1)..(e - 1) : ~ClosesAt(text, k)
         IN [found |-> TRUE, start |-> i, group1 |-> SubSeq(text, b, e),
             end |-> SkipSpace(text, e + 1)]
    ELSE [found |-> FALSE, start |-> 0, group1 |-> <<>>, end |-> 0]

\* re.sub of the fenced block pattern by the empty string
RECURSIVE RemoveBlocks(_)
RemoveBlocks(response) ==
  IF re_search(response).found
    THEN SubSeq(response, 1, re_search(response).start - 1)
           \o RemoveBlocks(SubSeq(response, re_search(response).end + 1, Len(response)))
    ELSE response

\* the two re.sub of newline runs and of whitespace runs: every run of
\* whitespace becomes one space
RECURSIVE CollapseSpace(_)
CollapseSpace(text) ==
  IF text = <<>> THEN <<>>
  ELSE IF IsSpace(Head(text))
    THEN <<" ">> \o CollapseSpace(LStrip(text))
    ELSE <<Head(text)>> \o CollapseSpace(Tail(text))

\* a _strip_function_calls that leaves the whitespace as it is
_strip_function_calls_raw(response) == RemoveBlocks(response)

_strip_function_calls(response) == Strip(CollapseSpace(RemoveBlocks(response)))

\* the characters of a text that are no whitespace
Solid(text) == SelectSeq(text, LAMBDA c : ~IsSpace(c))

\* the JSON objects of the model: {} , a function and a function with params
JsonObjects ==
  { <<"{", "}">>, <<"{", "F", "}">>, <<"{", "F", "{", "}", "}">>,
    <<"{", "U", "}">>, <<"{", "U", "{", "}", "}">> }

\* a json.loads that takes every text for the object { F }
json_loads_lenient(text) ==
  [ok |-> TRUE, function |-> "DRAFT_EMAIL", params |-> "default"]

\* json.loads and function_call.get("function") / get("params", {}); ok is
\* FALSE when json.loads raises JSONDecodeError
json_loads(text) ==
  IF Solid(text) \in JsonObjects
    THEN [ok |-> TRUE,
          function |-> IF "F" \in Words(text) THEN "DRAFT_EMAIL"
                       ELSE IF "U" \in Words(text) THEN "UNKNOWN" ELSE NULL,
          params |-> IF Len(Solid(text)) = 5 THEN "block" ELSE "default"]
    ELSE [ok |-> FALSE, function |-> NULL, params |-> "default"]

\* _parse_and_execute_function returns None without calling a function
NoCall == [function |-> NULL, params |-> "default"]

\* the function call _parse_and_execute_function makes for a response
FunctionCall(ai_response) ==
  LET m == re_search(ai_response)
      call == json_loads(m.group1)
  IN IF m.found /\ call.ok /\ call.function = "DRAFT_EMAIL"
       THEN [function |-> call.function, params |-> call.params]
       ELSE NoCall

\* what the Google integration answers: the draft is made, it reports a
\* failure, or it raises
GoogleOutcomes == {"success", "failure", "raises"}

\* a result message for the draft that was made only
ResultMessage_silent(outcome) ==
  IF outcome = "success" THEN <<"drafted">> ELSE <<>>

\* the result message of _parse_and_execute_function
ResultMessage(outcome) ==
  IF outcome = "success" THEN <<"drafted">>
  ELSE IF outcome = "failure" THEN <<"failed">>
  ELSE <<"error">>

\* an ai_responses that holds the clean response even when it is empty
Responses_keep_empty(clean_response, function_result) ==
  <<clean_response>>
    \o (IF function_result # <<>> THEN <<function_result>> ELSE <<>>)

\* ai_responses of handle_ai_conversation
Responses(clean_response, function_result) ==
  (IF Strip(clean_response) # <<>> THEN <<clean_response>> ELSE <<>>)
    \o (IF function_result # <<>> THEN <<function_result>> ELSE <<>>)

\* the model outputs that are interpreted: prose, and prose around a block
Proses == { <<>>, <<"a">>, <<"a", " ">>, <<"a", "\n", "a">> }
Gaps == { <<>>, <<" ">>, <<"\n">> }
Bodies ==
  (JsonObjects \ {<<"{", "U", "{", "}", "}">>})
    \cup { <<"{", "a", "}">>, <<"a">>, <<"{", " ", "F", "\n", "}">> }
Fenced(pre, gap1, body, gap2, post) ==
  pre \o <<"#", "j">> \o gap1 \o body \o gap2 \o <<"#">> \o post
ModelOutputs ==
  Proses \cup { Fenced(pre, gap1, body, gap2, post) :
                  pre \in Proses, gap1 \in Gaps, body \in Bodies,
                  gap2 \in Gaps, post \in Proses }

InitInterpret ==
  /\ interp \in { [NoInterp EXCEPT !.pc = "execute", !.full_ai_response = o] :
                    o \in ModelOutputs }
  /\ conversation = <<>> /\ history_string = <<>> /\ parsed = <<>> /\ cpc = "new"
  /\ remaining = <<>> /\ RestNew
  /\ bb_events = {} /\ auth_users = <<>> /\ user_profiles = NoRow /\ otp_pending = {}
  /\ task = [t \in Tasks |-> IdleTask]
  /\ deliveries = 0

\* _parse_and_execute_function
ParseAndExecute ==
  /\ interp.pc = "execute"
  /\ LET call == FunctionCall(interp.full_ai_response)
     IN IF call = NoCall
          THEN interp' = [interp EXCEPT !.pc = "reply"]
          ELSE \E outcome \in GoogleOutcomes :
                 interp' = [interp EXCEPT !.pc = "reply",
                                          !.executed = Append(@, call),
                                          !.function_result = ResultMessage(outcome)]
  /\ UNCHANGED <<onbVars, conversation, history_string, parsed, cpc, remaining, newVars>>

\* handle_ai_conversation: the clean response and the list that is returned
StripAndReply ==
  /\ interp.pc = "reply"
  /\ interp' = [interp EXCEPT
       !.pc = "done",
       !.ai_responses = Responses(_strip_function_calls(interp.full_ai_response),
                                  interp.function_result)]
  /\ UNCHANGED <<onbVars, conversation, history_string, parsed, cpc, remaining, newVars>>

NextInterpret == ParseAndExecute \/ StripAndReply

SpecInterpret == InitInterpret /\ [][NextInterpret]_vars

\* ------------------------------------------------ handle_ai_conversation
\* Two calls of handle_ai_conversation for one user.  The turns are single
\* lines, so that the stored string reads back as it was written.  Every read
\* and write of user_profiles.conversation_history, the call of the model and
\* the call of the function are steps of their own.

\* the message of each call
UserMessageOf(c) == IF c = "c1" THEN <<"a">> ELSE <<"b">>

\* what the model answers: prose, prose and a block that names DRAFT_EMAIL,
\* that block alone, and a block alone that is not JSON
ConverseOutputs ==
  { <<"a">>,
    <<"a", "#", "j", "{", "F", "}", "#">>,
    <<"#", "j", "{", "F", "}", "#">>,
    <<"#", "j", "{", "a", "}", "#">> }

\* the reply of _generate_ai_response when the call of the model raises
Apology == <<"sorry">>

\* the transcripts that are stored when the calls start
StoredHistories ==
  { <<>>,
    <<[role |-> <<"user">>, content |-> <<"a", "a", "a">>],
      [role |-> <<"assistant">>, content |-> <<"a", "a", "a">>]>> }

user_msg(c) == [role |-> <<"user">>, content |-> conv[c].user_message]
ai_msg(c) == [role |-> <<"assistant">>, content |-> conv[c].full_ai_response]

\* a current_history.extend that takes the last message only
ExtendHistory_last(current_history, messages) ==
  current_history \o <<messages[Len(messages)]>>

\* current_history.extend(messages) of _store_conversation_messages
ExtendHistory(current_history, messages) == current_history \o messages

InitConverse ==
  /\ conv = [c \in Calls |-> IdleCall]
  /\ history_string \in { _conversation_to_string(h) : h \in StoredHistories }
  /\ conversation = <<>> /\ parsed = <<>> /\ cpc = "new"
  /\ remaining = <<>> /\ interp = NoInterp
  /\ outbox = NoOutbox /\ endpoint = NoEndpoint /\ RestMore
  /\ bb_events = {} /\ auth_users = <<>> /\ user_profiles = NoRow /\ otp_pending = {}
  /\ task = [t \in Tasks |-> IdleTask]
  /\ deliveries = 0

ConverseRest ==
  UNCHANGED <<onbVars, conversation, parsed, cpc, remaining, interp, outbox, endpoint,
              moreVars>>

\* _get_conversation_history, the user message appended to the history that
\* was read, _archive_conversation_message (which stores nothing) and the
\* count of the tokens
GetHistory(c) ==
  /\ conv[c].pc = "idle"
  /\ LET conversation_history ==
           Append(_parse_conversation_string(history_string),
                  [role |-> <<"user">>, content |-> UserMessageOf(c)])
     IN conv' = [conv EXCEPT
          ![c].user_message = UserMessageOf(c),
          ![c].conversation_history = conversation_history,
          ![c].pc = IF TotalTokens(conversation_history) > max_tokens
                      THEN "truncate" ELSE "generate"]
  /\ UNCHANGED history_string
  /\ ConverseRest

\* a _truncate_context that cuts the history of the call and stores nothing
Truncate_unstored(c) ==
  /\ conv[c].pc = "truncate"
  /\ conv' = [conv EXCEPT
       ![c].conversation_history = _truncate_context(conv[c].conversation_history),
       ![c].pc = "generate"]
  /\ UNCHANGED history_string
  /\ ConverseRest

\* _truncate_context: the history of this call is cut and written over the
\* stored one
Truncate(c) ==
  /\ conv[c].pc = "truncate"
  /\ LET remaining_messages == _truncate_context(conv[c].conversation_history)
     IN /\ history_string' = _conversation_to_string(remaining_messages)
        /\ conv' = [conv EXCEPT ![c].conversation_history = remaining_messages,
                                ![c].pc = "generate"]
  /\ ConverseRest

\* _generate_ai_response: the stripped text of the model, or the apology
\* when the call raises
Generate(c) ==
  /\ conv[c].pc = "generate"
  /\ \/ \E response_text \in ConverseOutputs :
          conv' = [conv EXCEPT ![c].model_output = Strip(response_text),
                               ![c].full_ai_response = Strip(response_text),
                               ![c].pc = "execute"]
     \/ conv' = [conv EXCEPT ![c].raised = TRUE,
                             ![c].model_output = Apology,
                             ![c].full_ai_response = Apology,
                             ![c].pc = "execute"]
  /\ UNCHANGED history_string
  /\ ConverseRest

\* _parse_and_execute_function, _strip_function_calls, the list that is
\* returned and the assistant message that is stored
Execute(c) ==
  /\ conv[c].pc = "execute"
  /\ LET call == FunctionCall(conv[c].full_ai_response)
         clean_response == _strip_function_calls(conv[c].full_ai_response)
     IN \E outcome \in IF call = NoCall THEN {"none"} ELSE GoogleOutcomes :
          LET function_result ==
                IF call = NoCall THEN <<>> ELSE ResultMessage(outcome)
          IN conv' = [conv EXCEPT
               ![c].function_result = function_result,
               ![c].ai_responses = Responses(clean_response, function_result),
               ![c].full_ai_response =
                  IF function_result # <<>>
                    THEN @ \o <<" ">> \o function_result ELSE @,
               ![c].pc = "store_read"]
  /\ UNCHANGED history_string
  /\ ConverseRest

\* _store_conversation_messages: the stored history is read again
StoreRead(c) ==
  /\ conv[c].pc = "store_read"
  /\ conv' = [conv EXCEPT
       ![c].current_history = _parse_conversation_string(history_string),
       ![c].pc = "store_write"]
  /\ UNCHANGED history_string
  /\ ConverseRest

\* _store_conversation_messages: the history that was read, with the user
\* message and the assistant message, is written; the call returns
StoreWrite(c) ==
  /\ conv[c].pc = "store_write"
  /\ history_string' =
       _conversation_to_string(
         ExtendHistory(conv[c].current_history, <<user_msg(c), ai_msg(c)>>))
  /\ conv' = [conv EXCEPT ![c].pc = "done"]
  /\ ConverseRest

NextConverse ==
  \E c \in Calls :
    \/ GetHistory(c)
    \/ Truncate(c)
    \/ Generate(c)
    \/ Execute(c)
    \/ StoreRead(c)
    \/ StoreWrite(c)

SpecConverse == InitConverse /\ [][NextConverse]_vars

\* ------------------------------------- process_webhook_message: the replies
\* The end of process_webhook_message: the handler has written its state
\* changes and has returned the replies; every send_text_message is a step.

ReplyTexts == { <<"x">>, <<"y">> }
ReplyLists == UNION { [1..n -> ReplyTexts] : n \in 0..MaxReplies }

\* a success that does not look at the exception
MessageResponse_success_always(raised) == TRUE

\* the success of the MessageResponse that is returned
MessageResponse_success(raised) == ~raised

InitSend ==
  /\ \E r \in ReplyLists, chat \in {"chat", NULL} :
       outbox = [NoOutbox EXCEPT !.pc = "send", !.chat_identifier = chat,
                                 !.responses_to_send = r]
  /\ \E s \in InitStores :
       /\ auth_users = s.auth
       /\ user_profiles = s.row
       /\ otp_pending = s.otp
  /\ history_string \in { _conversation_to_string(h) : h \in StoredHistories }
  /\ conversation = <<>> /\ parsed = <<>> /\ cpc = "new"
  /\ remaining = <<>> /\ interp = NoInterp
  /\ conv = [c \in Calls |-> IdleCall] /\ endpoint = NoEndpoint /\ RestMore
  /\ bb_events = {}
  /\ task = [t \in Tasks |-> IdleTask]
  /\ deliveries = 0

SendRest ==
  UNCHANGED <<onbVars, conversation, history_string, parsed, cpc, remaining,
              interp, conv, endpoint, moreVars>>

\* there are replies and _extract_chat_identifier finds no chat
NoChatIdentifier ==
  /\ outbox.pc = "send"
  /\ outbox.responses_to_send # <<>>
  /\ outbox.chat_identifier = NULL
  /\ outbox' = [outbox EXCEPT !.pc = "raised", !.raised = TRUE]
  /\ SendRest

\* send_text_message for the next reply of the list: the transport takes
\* it, or the call raises and the loop is left
SendText ==
  /\ outbox.pc = "send"
  /\ outbox.chat_identifier # NULL
  /\ Len(outbox.sent) < Len(outbox.responses_to_send)
  /\ \E delivered \in BOOLEAN :
       outbox' =
         IF delivered
           THEN [outbox EXCEPT
                   !.sent = Append(@, outbox.responses_to_send[Len(outbox.sent) + 1])]
           ELSE [outbox EXCEPT !.pc = "raised", !.raised = TRUE]
  /\ SendRest

\* the MessageResponse: after the loop, or from the except clause
Return ==
  /\ \/ outbox.pc = "raised"
     \/ /\ outbox.pc = "send"
        /\ \/ outbox.responses_to_send = <<>>
           \/ /\ outbox.chat_identifier # NULL
              /\ Len(outbox.sent) = Len(outbox.responses_to_send)
  /\ outbox' = [outbox EXCEPT !.pc = "done",
                              !.success = MessageResponse_success(outbox.raised)]
  /\ SendRest

NextSend == NoChatIdentifier \/ SendText \/ Return

SpecSend == InitSend /\ [][NextSend]_vars

\* ------------------------------------- receive_bluebubbles_webhook: the checks
\* The endpoint with its checks of the request.  A body is a payload; the
\* body of no bytes and a body that is not JSON are payloads of their own
\* kinds.  The header is the value of X-Shared-Secret, NULL when it is absent.

EmptyBody == Payload(0, "empty", <<>>)
NotJsonBody == Payload(0, "notjson", <<"hi">>)
RequestBodies ==
  { EmptyBody, NotJsonBody, Payload(1, "msg", <<"hi">>), Payload(1, "typing", <<"hi">>) }
SecretHeaders == { NULL, "s", "bad" }
Secrets == { NULL, "s" }

\* "not raw_body" and json.loads(raw_body)
IsEmpty(raw_body) == raw_body.kind = "empty"
IsJson(raw_body) == raw_body.kind \notin {"empty", "notjson"}

\* no event id was computed
NoEventId == <<>>

\* a check of the secret that lets every request through
validate_shared_secret_open(x_shared_secret) == TRUE

validate_shared_secret(x_shared_secret) ==
  \/ endpoint.WEBHOOK_SHARED_SECRET = NULL
  \/ x_shared_secret = endpoint.WEBHOOK_SHARED_SECRET

\* the HTTPException of a rejected request and the WebhookResponse
Rejected(raw_body, x_shared_secret, detail) ==
  [raw_body |-> raw_body, x_shared_secret |-> x_shared_secret,
   success |-> FALSE, detail |-> detail, event_id |-> NoEventId]
WebhookResponse(raw_body, x_shared_secret, event_id) ==
  [raw_body |-> raw_body, x_shared_secret |-> x_shared_secret,
   success |-> TRUE, detail |-> "processed", event_id |-> event_id]

InitWebhook ==
  /\ \E secret \in Secrets :
       endpoint = [NoEndpoint EXCEPT !.WEBHOOK_SHARED_SECRET = secret]
  /\ bb_events = {}
  /\ auth_users = <<>> /\ user_profiles = NoRow /\ otp_pending = {}
  /\ task = [t \in Tasks |-> IdleTask]
  /\ deliveries = 0
  /\ conversation = <<>> /\ history_string = <<>> /\ parsed = <<>> /\ cpc = "new"
  /\ remaining = <<>> /\ interp = NoInterp
  /\ conv = [c \in Calls |-> IdleCall] /\ outbox = NoOutbox /\ RestMore

\* receive_bluebubbles_webhook: the body, the secret and the JSON are
\* checked in this order, then the id is computed and the event is upserted
Deliver ==
  /\ Len(endpoint.answers) < MaxRequests
  /\ \E raw_body \in RequestBodies, x_shared_secret \in SecretHeaders :
       IF IsEmpty(raw_body)
         THEN /\ endpoint' = [endpoint EXCEPT !.answers =
                   Append(@, Rejected(raw_body, x_shared_secret, "empty"))]
              /\ UNCHANGED bb_events
       ELSE IF ~validate_shared_secret(x_shared_secret)
         THEN /\ endpoint' = [endpoint EXCEPT !.answers =
                   Append(@, Rejected(raw_body, x_shared_secret, "secret"))]
              /\ UNCHANGED bb_events
       ELSE IF ~IsJson(raw_body)
         THEN /\ endpoint' = [endpoint EXCEPT !.answers =
                   Append(@, Rejected(raw_body, x_shared_secret, "json"))]
              /\ UNCHANGED bb_events
       ELSE LET event_id == generate_event_id(raw_body)
            IN /\ bb_events' = insert_webhook_event(event_id, x_shared_secret, raw_body)
               /\ endpoint' = [endpoint EXCEPT !.answers =
                    Append(@, WebhookResponse(raw_body, x_shared_secret, event_id))]
  /\ UNCHANGED <<auth_users, user_profiles, otp_pending, task, deliveries>>
  /\ UNCHANGED <<conversation, history_string, parsed, cpc, remaining, interp,
                 conv, outbox, moreVars>>

NextWebhook == Deliver

SpecWebhook == InitWebhook /\ [][NextWebhook]_vars

\* ---------------------------------------------------- _handle_otp_provided
\* One call of _handle_otp_provided.  The profile of the sender may not be
\* readable yet when the call starts: the row another request has written
\* becomes readable at some step (the lag of a read after a write).

\* max_retries of _get_user_with_retry
max_retries == 3

\* the rows that are stored, or become readable, for the sender
RetryRows ==
  { [NewRow(1, "e1") EXCEPT !.onboarding_state = "awaiting_email"],
    [NewRow(1, "e1") EXCEPT !.onboarding_state = "awaiting_email_otp"],
    [NewRow(1, "e1") EXCEPT !.onboarding_state = "awaiting_integrations",
                            !.email_verified = TRUE] }

\* a retry loop that goes on after a lookup found the user
FoundEndsRetries_never(user_with_profile) == FALSE

\* "if user_with_profile: return user_with_profile"
FoundEndsRetries(user_with_profile) == user_with_profile.profile.exists

\* asyncio.sleep(0.1 * (attempt + 1)), in tenths of a second
Backoff(attempt) == attempt + 1

InitRetry ==
  /\ \E code \in {"123456", "000000"} :
       retry = [NoRetry EXCEPT !.pc = "lookup", !.otp_code = code]
  /\ \/ user_profiles = NoRow /\ auth_users = <<>> /\ otp_pending = {}
     \/ user_profiles = NoRow /\ auth_users = <<"e1">> /\ otp_pending \in {{}, {"e1"}}
     \/ user_profiles \in RetryRows /\ auth_users = <<"e1">> /\ otp_pending \in {{}, {"e1"}}
  /\ bb_events = {}
  /\ task = [t \in Tasks |-> IdleTask]
  /\ deliveries = 0
  /\ conversation = <<>> /\ history_string = <<>> /\ parsed = <<>> /\ cpc = "new"
  /\ remaining = <<>> /\ interp = NoInterp
  /\ conv = [c \in Calls |-> IdleCall] /\ outbox = NoOutbox /\ endpoint = NoEndpoint
  /\ provider = NoProvider /\ event = NoEvent

RetryRest ==
  UNCHANGED <<bb_events, task, deliveries, conversation, history_string, parsed, cpc,
              remaining, interp, conv, outbox, endpoint, provider, event>>

\* the row that the request which created the auth user has written becomes
\* readable
ProfileLands ==
  /\ retry.pc = "lookup"
  /\ user_profiles = NoRow /\ auth_users = <<"e1">>
  /\ user_profiles' \in RetryRows
  /\ UNCHANGED <<auth_users, otp_pending, retry>>
  /\ RetryRest

\* _get_user_with_retry: one pass of the loop, and the reply of
\* _handle_otp_provided when the loop ends without a user
LookupAttempt ==
  /\ retry.pc = "lookup"
  /\ LET user_with_profile == get_user_by_phone_number
     IN retry' =
          IF FoundEndsRetries(user_with_profile)
            THEN [retry EXCEPT !.lookups = @ + 1, !.found_at = retry.attempt + 1,
                               !.user_with_profile = user_with_profile,
                               !.pc = "verify"]
          ELSE IF retry.attempt < max_retries - 1
            THEN [retry EXCEPT !.lookups = @ + 1,
                               !.slept = Append(@, Backoff(retry.attempt)),
                               !.attempt = @ + 1]
          ELSE [retry EXCEPT !.lookups = @ + 1, !.pc = "done",
                             !.reply = "account_not_found"]
  /\ UNCHANGED <<auth_users, user_profiles, otp_pending>>
  /\ RetryRest

\* _handle_otp_provided: _verify_otp_code with the email of the auth user
VerifyOtp ==
  /\ retry.pc = "verify"
  /\ \E accepted \in _verify_otp_code(retry.user_with_profile.auth_email, retry.otp_code) :
       retry' = IF accepted THEN [retry EXCEPT !.pc = "mark"]
                            ELSE [retry EXCEPT !.pc = "done", !.reply = "invalid_code"]
  /\ UNCHANGED <<auth_users, user_profiles, otp_pending>>
  /\ RetryRest

\* _handle_otp_provided: _mark_email_verified and the reply
MarkVerified ==
  /\ retry.pc = "mark"
  /\ LET uid == retry.user_with_profile.profile.id
     IN IF MarkFilter(uid)
          THEN /\ user_profiles' = _mark_email_verified(user_profiles)
               /\ retry' = [retry EXCEPT !.pc = "done", !.reply = "verified"]
          ELSE /\ UNCHANGED user_profiles
               /\ retry' = [retry EXCEPT !.pc = "done", !.reply =
                    IF Matches(uid) /\ user_profiles.email_verified
                      THEN "verified" ELSE "verify_error"]
  /\ UNCHANGED <<auth_users, otp_pending>>
  /\ RetryRest

NextRetry == ProfileLands \/ LookupAttempt \/ VerifyOtp \/ MarkVerified

\* the call goes on: no step of it waits for ever
SpecRetry ==
  InitRetry /\ [][NextRetry]_vars
    /\ WF_vars(LookupAttempt) /\ WF_vars(VerifyOtp) /\ WF_vars(MarkVerified)

\* ------------------------------ process_webhook_message: handler to replies
\* One message from the handler's calls to the MessageResponse.  The handling
\* is under way: the model has answered the message of a completed user (or
\* its call has raised), or the message holds a dashboard keyword, or the
\* handler of a user who waits for the OTP is about to call sign_in_with_otp
\* or verify_otp.  The replies then go through the loop of send_text_message.

\* the user who waits for the OTP that was sent to e1
OtpUser ==
  [profile |-> [NewRow(1, "e1") EXCEPT !.onboarding_state = "awaiting_email_otp"],
   auth_email |-> "e1"]

\* the handlings of that user's message: with a new email, after the email is
\* stored, and with a code
OtpHandlings ==
  { [auth |-> <<"e2">>,
     row |-> [NewRow(1, "e2") EXCEPT !.onboarding_state = "awaiting_email_otp"],
     t |-> [IdleTask EXCEPT !.pc = "ep_send", !.payload = Payload(1, "msg", <<"e2">>),
                            !.existing_user = OtpUser, !.email = "e2", !.uid = 1]] }
  \cup
  { [auth |-> <<"e1">>,
     row |-> OtpUser.profile,
     t |-> [IdleTask EXCEPT !.pc = "otp_verify", !.payload = Payload(1, "msg", <<code>>),
                            !.existing_user = OtpUser, !.uid = 1]] :
      code \in {"123456", "000000"} }

\* the three replies for a message that holds a dashboard keyword
DashboardReplies == << <<"here">>, <<"url">>, <<"manage">> >>

InitReply ==
  /\ \/ /\ interp \in { [NoInterp EXCEPT !.pc = "execute", !.full_ai_response = o] :
                          o \in ModelOutputs \cup {Apology} }
        /\ task = [t \in Tasks |-> IdleTask]
        /\ auth_users = <<"e1">> /\ otp_pending = {"e1"} /\ bb_events = {}
        /\ user_profiles = _complete_onboarding_with_integrations(
                             [NewRow(1, "e1") EXCEPT !.email_verified = TRUE,
                                                     !.google = TRUE, !.canvas = TRUE])
        /\ deliveries = 0
     \/ /\ interp = [NoInterp EXCEPT !.pc = "dashboard"]
        /\ task = [t \in Tasks |-> IdleTask]
        /\ auth_users = <<"e1">> /\ otp_pending = {"e1"} /\ bb_events = {}
        /\ user_profiles = _complete_onboarding_with_integrations(
                             [NewRow(1, "e1") EXCEPT !.email_verified = TRUE,
                                                     !.google = TRUE, !.canvas = TRUE])
        /\ deliveries = 0
     \/ /\ interp = NoInterp
        /\ \E h \in OtpHandlings :
             /\ task = [t \in Tasks |-> IF t = "t1" THEN h.t ELSE IdleTask]
             /\ auth_users = h.auth /\ user_profiles = h.row
             /\ bb_events = {[id |-> generate_event_id(h.t.payload),
                              headers |-> NULL, payload |-> h.t.payload]}
        /\ otp_pending = {"e1"}
        /\ deliveries = 1
  /\ conversation = <<>> /\ history_string = <<>> /\ parsed = <<>> /\ cpc = "new"
  /\ remaining = <<>> /\ RestNew

\* _handle_ai_conversation returns the list: the three dashboard replies, or
\* what handle_ai_conversation has returned
HandleAiConversation ==
  /\ outbox.pc = "off"
  /\ interp.pc \in {"dashboard", "done"}
  /\ \E chat \in {"chat", NULL} :
       outbox' = [NoOutbox EXCEPT
                    !.pc = "send", !.chat_identifier = chat,
                    !.responses_to_send = IF interp.pc = "dashboard"
                                            THEN DashboardReplies
                                            ELSE interp.ai_responses]
  /\ UNCHANGED <<onbVars, conversation, history_string, parsed, cpc, remaining,
                 interp, conv, endpoint, moreVars>>

\* an onboarding handler has returned response_text: the list of one reply
HandleWorkflowReply(t) ==
  /\ outbox.pc = "off"
  /\ task[t].pc = "respond"
  /\ \E chat \in {"chat", NULL} :
       outbox' = [NoOutbox EXCEPT
                    !.pc = "send", !.chat_identifier = chat,
                    !.responses_to_send = IF task[t].reply = "none"
                                            THEN <<>> ELSE << <<task[t].reply>> >>]
  /\ task' = Goto(t, "sending")
  /\ UNCHANGED <<bb_events, auth_users, user_profiles, otp_pending, deliveries>>
  /\ UNCHANGED <<conversation, history_string, parsed, cpc, remaining,
                 interp, conv, endpoint, moreVars>>

NextReply ==
  \/ ParseAndExecute
  \/ StripAndReply
  \/ HandleAiConversation
  \/ \E t \in Tasks : EpSend(t)
  \/ \E t \in Tasks : OtpVerify(t)
  \/ \E t \in Tasks : MarkUpdate(t)
  \/ \E t \in Tasks : HandleWorkflowReply(t)
  \/ NoChatIdentifier
  \/ SendText
  \/ Return

SpecReply == InitReply /\ [][NextReply]_vars

\* ------------------------------------- a handling that is still under way
\* The service at a later moment.  The user waited for the OTP and sent
\* "restart"; the handling of that message has looked the user up and has not
\* yet made its first write.  Meanwhile the user has sent the code, and that
\* message is handled to its end: the email is verified.  The webhooks are
\* counted from this moment on.

StalledRestart ==
  [IdleTask EXCEPT !.pc = "restart_state", !.payload = Payload(1, "msg", <<"restart">>),
                   !.existing_user = OtpUser, !.uid = 1, !.overlap = TRUE]

VerifiedDone ==
  [IdleTask EXCEPT !.pc = "done", !.payload = Payload(2, "msg", <<"123456">>),
                   !.reply = "verified", !.overlap = TRUE]

InitLate ==
  /\ task = [t \in Tasks |-> IF t = "t1" THEN StalledRestart ELSE VerifiedDone]
  /\ bb_events = { [id |-> generate_event_id(p), headers |-> NULL, payload |-> p] :
                     p \in {StalledRestart.payload, VerifiedDone.payload} }
  /\ auth_users = <<"e1">>
  /\ user_profiles = _mark_email_verified(OtpUser.profile)
  /\ otp_pending = {"e1"}
  /\ deliveries = 0
  /\ conversation = <<>> /\ history_string = <<>> /\ parsed = <<>> /\ cpc = "new"
  /\ remaining = <<>> /\ interp = NoInterp /\ RestNew

\* the steps that the messages of a verified user take, and the stalled one
NextLate ==
  \/ \E t \in Tasks : ReceiveWebhook(t)
  \/ \E t \in Tasks : Lookup(t)
  \/ \E t \in Tasks : RestartState(t)
  \/ \E t \in Tasks : RestartEmail(t)
  \/ \E t \in Tasks : IntegRead(t)
  \/ \E t \in Tasks : IntegWrite(t)
  \/ \E t \in Tasks : Ai(t)
  \/ \E t \in Tasks : Respond(t)
  \/ DashboardLink

SpecLate == InitLate /\ [][NextLate]_vars

\* ------------------------------------ a model output with two fenced blocks
\* The model answers with two fenced json blocks, with or without prose
\* around them.  A block holds a JSON object, braces around a text that is
\* not JSON, or a text without braces.

BlockBodies ==
  { <<"{", "F", "}">>, <<"{", "F", "{", "}", "}">>, <<"{", "U", "}">>,
    <<"{", "}">>, <<"{", "a", "}">>, <<"a">> }
BlockProses == { <<>>, <<"a">>, <<"\n">> }

TwoBlocks(pre, body1, mid, body2, post) ==
  Fenced(pre, <<>>, body1, <<>>, mid) \o Fenced(<<>>, <<>>, body2, <<>>, post)

TwoBlockOutputs ==
  { TwoBlocks(pre, body1, mid, body2, post) :
      pre \in BlockProses, body1 \in BlockBodies, mid \in BlockProses,
      body2 \in BlockBodies, post \in BlockProses }

InitBlocks ==
  /\ interp \in { [NoInterp EXCEPT !.pc = "execute", !.full_ai_response = o] :
                    o \in TwoBlockOutputs }
  /\ conversation = <<>> /\ history_string = <<>> /\ parsed = <<>> /\ cpc = "new"
  /\ remaining = <<>> /\ RestNew
  /\ bb_events = {} /\ auth_users = <<>> /\ user_profiles = NoRow /\ otp_pending = {}
  /\ task = [t \in Tasks |-> IdleTask]
  /\ deliveries = 0

NextBlocks == ParseAndExecute \/ StripAndReply

SpecBlocks == InitBlocks /\ [][NextBlocks]_vars

\* --------------------------------- GoogleIntegrationService: one function call
\* _parse_and_execute_function has read a supported function from the block.
\* The lookup of the Google account, the POST to the prod-web API, the result
\* message and the reply list are steps of their own.

Functions == {"DRAFT_EMAIL", "SEND_EMAIL", "CREATE_CALENDAR_EVENT"}

\* the texts the prod-web API answers with, and the texts of an exception
ProviderTexts == { <<"quota">>, <<"denied", "scope">>, <<>> }

\* the answers to the POST: 200, another status with a text, or an exception
\* of the client (a timeout, a refused connection)
ProviderResponses ==
  { [kind |-> "status", status_code |-> 200, text |-> <<"ok">>] }
    \cup { [kind |-> "status", status_code |-> c, text |-> x] :
             c \in {400, 500}, x \in ProviderTexts }
    \cup { [kind |-> "exception", status_code |-> 0, text |-> x] :
             x \in ProviderTexts \ {<<>>} }

\* the clean responses the result message is sent after
CleanResponses == { <<>>, <<"a">>, <<"a", " ", "a">> }

NoAccountError == <<"No Google account linked.">>

\* the prefix of the error of a status that is not 200
StatusErrorPrefix(function) ==
  IF function = "DRAFT_EMAIL" THEN <<"Failed to create draft:">>
  ELSE IF function = "SEND_EMAIL" THEN <<"Failed to send email:">>
  ELSE <<"Failed to create event:">>

\* the prefix of the error of the except clause
ExceptionErrorPrefix(function) ==
  IF function = "DRAFT_EMAIL" THEN <<"Failed to create email draft:">>
  ELSE IF function = "SEND_EMAIL" THEN <<"Failed to send email:">>
  ELSE <<"Failed to create calendar event:">>

\* the message of a result with success
SuccessMessage(function) ==
  IF function = "DRAFT_EMAIL" THEN <<"Email draft created">>
  ELSE IF function = "SEND_EMAIL" THEN <<"Email sent">>
  ELSE <<"Calendar event created">>

\* the dictionary draft_email, send_email and create_calendar_event return
\* for an answer to the POST
ResultOf(function, response) ==
  IF response.kind = "exception"
    THEN [success |-> FALSE, message |-> <<>>,
          error |-> ExceptionErrorPrefix(function) \o response.text]
  ELSE IF response.status_code = 200
    THEN [success |-> TRUE, message |-> SuccessMessage(function), error |-> <<>>]
  ELSE [success |-> FALSE, message |-> <<>>,
        error |-> StatusErrorPrefix(function) \o response.text]

\* a failure summary without the error of the result
FailureSummary_bare(function, result) ==
  IF function = "DRAFT_EMAIL" THEN <<"Failed to create draft:">>
  ELSE IF function = "SEND_EMAIL" THEN <<"Failed to send:">>
  ELSE <<"Failed to create event:">>

\* the f-strings of _parse_and_execute_function for a result without success
FailureSummary(function, result) ==
  (IF function = "DRAFT_EMAIL" THEN <<"Failed to create draft:">>
   ELSE IF function = "SEND_EMAIL" THEN <<"Failed to send:">>
   ELSE <<"Failed to create event:">>) \o result.error

\* what _parse_and_execute_function returns for the result
SummaryOf(function, result) ==
  IF result.success
    THEN IF function = "DRAFT_EMAIL" THEN <<"I've created the email draft for you">>
         ELSE IF function = "SEND_EMAIL" THEN <<"Email sent successfully">>
         ELSE result.message
    ELSE FailureSummary(function, result)

InitProvider ==
  /\ \E f \in Functions, clean \in CleanResponses :
       provider = [NoProvider EXCEPT !.pc = "account", !.function = f,
                                     !.clean_response = clean]
  /\ retry = NoRetry /\ event = NoEvent
  /\ conv = [c \in Calls |-> IdleCall] /\ outbox = NoOutbox /\ endpoint = NoEndpoint
  /\ conversation = <<>> /\ history_string = <<>> /\ parsed = <<>> /\ cpc = "new"
  /\ remaining = <<>> /\ interp = NoInterp
  /\ bb_events = {} /\ auth_users = <<>> /\ user_profiles = NoRow /\ otp_pending = {}
  /\ task = [t \in Tasks |-> IdleTask]
  /\ deliveries = 0

ProviderRest ==
  UNCHANGED <<onbVars, conversation, history_string, parsed, cpc, remaining, interp,
              conv, outbox, endpoint, retry, event>>

\* get_google_account: the account that is linked, or None
GetGoogleAccount ==
  /\ provider.pc = "account"
  /\ \E linked \in BOOLEAN :
       provider' =
         IF linked
           THEN [provider EXCEPT !.pc = "post"]
           ELSE [provider EXCEPT
                   !.pc = "summary",
                   !.result = [success |-> FALSE, message |-> <<>>,
                               error |-> NoAccountError]]
  /\ ProviderRest

\* client.post(...) and the result that is built from its answer
Post ==
  /\ provider.pc = "post"
  /\ \E response \in ProviderResponses :
       provider' = [provider EXCEPT
                      !.pc = "summary", !.requests = @ + 1, !.response = response,
                      !.result = ResultOf(provider.function, response)]
  /\ ProviderRest

\* the return value of _parse_and_execute_function
Summarize ==
  /\ provider.pc = "summary"
  /\ provider' = [provider EXCEPT
                    !.pc = "reply",
                    !.function_result = SummaryOf(provider.function, provider.result)]
  /\ ProviderRest

\* handle_ai_conversation: the reply list
ReplyWithResult ==
  /\ provider.pc = "reply"
  /\ provider' = [provider EXCEPT
                    !.pc = "done",
                    !.ai_responses = Responses(provider.clean_response,
                                               provider.function_result)]
  /\ ProviderRest

NextProvider == GetGoogleAccount \/ Post \/ Summarize \/ ReplyWithResult

SpecProvider == InitProvider /\ [][NextProvider]_vars

\* ------------------------------------------- a creation that is still under way
\* The service at a later moment.  A first message with the email e1 was
\* looked up when the phone number had no profile; its create_authenticated_user
\* has made both of its checks for an existing user and has not yet called the
\* auth provider.  Meanwhile the same webhook was delivered again and handled
\* to its end (the profile exists, with e1), and a third message was answered
\* with a new OTP.  The webhooks are counted from this moment on.

StalledCreate ==
  [IdleTask EXCEPT !.pc = "cr_auth", !.payload = Payload(1, "msg", <<"e1">>),
                   !.email = "e1", !.new_user = TRUE, !.overlap = TRUE]

OtpSentDone ==
  [IdleTask EXCEPT !.pc = "done", !.payload = Payload(3, "msg", <<"123456">>),
                   !.reply = "otp_sent", !.success = FALSE, !.otps = 1,
                   !.overlap = TRUE]

InitStale ==
  /\ task = [t \in Tasks |-> IF t = "t1" THEN StalledCreate ELSE OtpSentDone]
  /\ bb_events = { [id |-> generate_event_id(p), headers |-> NULL, payload |-> p] :
                     p \in {StalledCreate.payload, OtpSentDone.payload} }
  /\ auth_users = <<"e1">>
  /\ user_profiles = OtpUser.profile
  /\ otp_pending = {"e1"}
  /\ deliveries = 0
  /\ conversation = <<>> /\ history_string = <<>> /\ parsed = <<>> /\ cpc = "new"
  /\ remaining = <<>> /\ interp = NoInterp /\ RestNew

\* the steps of the messages that follow, and of the stalled creation
NextStale ==
  \/ \E t \in Tasks : ReceiveWebhook(t)
  \/ \E t \in Tasks : Lookup(t)
  \/ \E t \in Tasks : RestartState(t)
  \/ \E t \in Tasks : RestartEmail(t)
  \/ \E t \in Tasks : EpAuth(t)
  \/ \E t \in Tasks : EpStore(t)
  \/ \E t \in Tasks : EpState(t)
  \/ \E t \in Tasks : EpSend(t)
  \/ \E t \in Tasks : ReState(t)
  \/ \E t \in Tasks : ReSend(t)
  \/ \E t \in Tasks : NsState(t)
  \/ \E t \in Tasks : OtpVerify(t)
  \/ \E t \in Tasks : MarkUpdate(t)
  \/ \E t \in Tasks : IntegRead(t)
  \/ \E t \in Tasks : IntegWrite(t)
  \/ \E t \in Tasks : Ai(t)
  \/ \E t \in Tasks : CrAuth(t)
  \/ \E t \in Tasks : CrCheck(t)
  \/ \E t \in Tasks : CrUpdate(t)
  \/ \E t \in Tasks : NuStore(t)
  \/ \E t \in Tasks : NuSend(t)
  \/ \E t \in Tasks : Respond(t)
  \/ DashboardLink

SpecStale == InitStale /\ [][NextStale]_vars

\* ------------------------------------------- a restart whose writes can fail
\* _restart_verification_process with the outcomes of its two updates: an
\* update is applied, or its execute() raises (the store is not reached or
\* answers with an error).  The user is an unverified one as the handlings of
\* earlier messages leave them, and the message "restart" was just received.

WriteOutcomes == {"applied", "raises"}

RestartStore(state, email, auth_email, otp) ==
  [auth |-> <<auth_email>>,
   row |-> [NewRow(1, email) EXCEPT !.onboarding_state = state],
   otp |-> otp]

RestartStores ==
  { RestartStore("not_started", "e1", "e1", {"e1"}),
    RestartStore("not_started", TempEmail, TempEmail, {}),
    RestartStore("not_started", "e2", "e2", {"e2"}),
    RestartStore("not_started", "e1", "e2", {"e2"}),
    RestartStore("awaiting_email", NULL, "e1", {"e1"}),
    RestartStore("awaiting_email", TempEmail, TempEmail, {}),
    RestartStore("awaiting_email", "e1", "e1", {"e1"}),
    RestartStore("awaiting_email", "e2", "e2", {"e2"}),
    RestartStore("awaiting_email_otp", "e1", "e1", {"e1"}),
    RestartStore("awaiting_email_otp", "e2", "e2", {"e1", "e2"}),
    RestartStore("awaiting_email_otp", "e2", "e1", {"e1"}),
    RestartStore("awaiting_email_otp", NULL, "e1", {"e1"}),
    RestartStore("not_started", "e2", "e1", {"e1"}),
    RestartStore("awaiting_email", NULL, "e2", {"e2"}) }

RestartReceived ==
  [IdleTask EXCEPT !.pc = "lookup", !.payload = Payload(1, "msg", <<"restart">>)]

InitRestart ==
  /\ \E s \in RestartStores :
       auth_users = s.auth /\ user_profiles = s.row /\ otp_pending = s.otp
  /\ task = [t \in Tasks |-> IF t = "t1" THEN RestartReceived ELSE IdleTask]
  /\ bb_events = { [id |-> generate_event_id(RestartReceived.payload), headers |-> NULL,
                    payload |-> RestartReceived.payload] }
  /\ deliveries = 1
  /\ conversation = <<>> /\ history_string = <<>> /\ parsed = <<>> /\ cpc = "new"
  /\ remaining = <<>> /\ interp = NoInterp /\ RestNew

\* the update of onboarding_state: _update_onboarding_state raises when the
\* update raises or touches no row, and the handler answers with its error
RestartStateOrRaise(t) ==
  /\ task[t].pc = "restart_state"
  /\ \E outcome \in WriteOutcomes :
       IF outcome = "applied" /\ Matches(task[t].uid)
         THEN /\ user_profiles' = _update_onboarding_state(user_profiles, "awaiting_email")
              /\ task' = Goto(t, "restart_email")
         ELSE /\ task' = Finish(t, "restart_error")
              /\ UNCHANGED user_profiles
  /\ UNCHANGED <<bb_events, auth_users, otp_pending, deliveries>>
  /\ UNCHANGED convVars

\* the update that clears the email: an update that touches no row is logged
\* and the restart answers as done; one that raises gives the error
RestartEmailOrRaise(t) ==
  /\ task[t].pc = "restart_email"
  /\ \E outcome \in WriteOutcomes :
       IF outcome = "applied"
         THEN /\ user_profiles' = IF Matches(task[t].uid)
                                    THEN _store_email_in_profile(user_profiles, NULL)
                                    ELSE user_profiles
              /\ task' = Finish(t, "restart_ok")
         ELSE /\ task' = Finish(t, "restart_error")
              /\ UNCHANGED user_profiles
  /\ UNCHANGED <<bb_events, auth_users, otp_pending, deliveries>>
  /\ UNCHANGED convVars

NextRestart ==
  \/ \E t \in Tasks : Lookup(t)
  \/ \E t \in Tasks : RestartStateOrRaise(t)
  \/ \E t \in Tasks : RestartEmailOrRaise(t)
  \/ \E t \in Tasks : Respond(t)

SpecRestart == InitRestart /\ [][NextRestart]_vars

\* ============================================ calendar event times
\* ai_conversation_service.py, _parse_natural_datetime as _execute_function
\* calls it for CREATE_CALENDAR_EVENT.  A datetime is a number of minutes
\* counted from midnight of the day the request arrives; seconds are dropped.
\* A string is a sequence of words, numbers and separators; a number is one
\* token of NumberTokens.

MinutesPerDay == 1440

MinutesPerHour == 60

NumberTokens == {"0", "00", "1", "2", "3", "9", "12", "14", "25", "30", "90"}

\* int(token) of one number token
IntOfToken(token) ==
  CASE token \in {"0", "00"} -> 0
    [] token = "1" -> 1
    [] token = "2" -> 2
    [] token = "3" -> 3
    [] token = "9" -> 9
    [] token = "12" -> 12
    [] token = "14" -> 14
    [] token = "25" -> 25
    [] token = "30" -> 30
    [] token = "90" -> 90
    [] OTHER -> 0

\* int(text): surrounding whitespace is accepted, anything else but one number
\* raises ValueError
IntOf(text) ==
  [ok |-> Len(Strip(text)) = 1 /\ Strip(text)[1] \in NumberTokens,
   value |-> IF Strip(text) = <<>> THEN 0 ELSE IntOfToken(Strip(text)[1])]

\* word in text
HasToken(text, word) == \E i \in 1..Len(text) : text[i] = word

\* text.replace(word, "")
Without(text, word) == SelectSeq(text, LAMBDA c : c # word)

\* datetime.replace(hour=, minute=, second=0, microsecond=0): ValueError when the
\* hour or the minute is out of range
ReplaceTime(base_date, hour, minute) ==
  [ok |-> hour <= 23 /\ minute <= 59,
   value |-> (base_date \div MinutesPerDay) * MinutesPerDay
               + hour * MinutesPerHour + minute]

\* the date the string is anchored to
BaseDate(now, time_str) ==
  IF HasToken(time_str, "tomorrow") THEN now + MinutesPerDay ELSE now

\* the string without its date anchor
TimePart(time_str) ==
  IF HasToken(time_str, "tomorrow") THEN Strip(Without(time_str, "tomorrow"))
  ELSE IF HasToken(time_str, "today") THEN Strip(Without(time_str, "today"))
  ELSE Strip(time_str)

\* hour, minute = map(int, time_part.split(":")), or hour = int(time_part)
HourMinute(time_part) ==
  IF HasToken(time_part, ":")
    THEN LET parts == Split(time_part, ":")
         IN  IF Len(parts) # 2 THEN [ok |-> FALSE, hour |-> 0, minute |-> 0]
             ELSE [ok |-> IntOf(parts[1]).ok /\ IntOf(parts[2]).ok,
                   hour |-> IntOf(parts[1]).value,
                   minute |-> IntOf(parts[2]).value]
    ELSE [ok |-> IntOf(time_part).ok, hour |-> IntOf(time_part).value, minute |-> 0]

\* the start the try block resolves from time_str; ok is false where it raises
StartOf(now, time_str) ==
  LET base_date == BaseDate(now, time_str)
      time_part == TimePart(time_str)
  IN  IF HasToken(time_part, "pm")
        THEN LET hm == HourMinute(Strip(Without(time_part, "pm")))
                 hour == IF hm.hour # 12 THEN hm.hour + 12 ELSE hm.hour
                 at == ReplaceTime(base_date, hour, hm.minute)
             IN  [ok |-> hm.ok /\ at.ok, value |-> at.value]
      ELSE IF HasToken(time_part, "am")
        THEN LET hm == HourMinute(Strip(Without(time_part, "am")))
                 hour == IF hm.hour = 12 THEN 0 ELSE hm.hour
                 at == ReplaceTime(base_date, hour, hm.minute)
             IN  [ok |-> hm.ok /\ at.ok, value |-> at.value]
      ELSE LET hm == HourMinute(time_part)
               at == ReplaceTime(base_date, hm.hour, hm.minute)
           IN  [ok |-> hm.ok /\ at.ok, value |-> at.value]

\* re.search(r'\d+', text): the first number of the text, or none
FirstNumber(text) ==
  IF \E i \in 1..Len(text) : text[i] \in NumberTokens
    THEN LET i == CHOOSE i \in 1..Len(text) :
                    /\ text[i] \in NumberTokens
                    /\ \A j \in 1..(i-1) : text[j] \notin NumberTokens
         IN  [ok |-> TRUE, value |-> IntOfToken(text[i])]
    ELSE [ok |-> FALSE, value |-> 0]

\* "minute" in text, "hour" in text
NamesUnit(text, unit) == HasToken(text, unit) \/ HasToken(text, unit \o "s")

\* duration_minutes; ok is false where .group() is called on no match
DurationOf(duration_str) ==
  IF NamesUnit(duration_str, "minute") THEN
    [ok |-> FirstNumber(duration_str).ok, minutes |-> FirstNumber(duration_str).value]
  ELSE IF NamesUnit(duration_str, "hour") THEN
    [ok |-> FirstNumber(duration_str).ok,
     minutes |-> FirstNumber(duration_str).value * MinutesPerHour]
  ELSE [ok |-> TRUE, minutes |-> 60]

\* the pair the function returns: the parsed times, or on any exception one hour
\* starting one hour from now
_parse_natural_datetime(now, time_str, duration_str) ==
  IF StartOf(now, time_str).ok /\ DurationOf(duration_str).ok
    THEN [start_time |-> StartOf(now, time_str).value,
          end_time |-> StartOf(now, time_str).value + DurationOf(duration_str).minutes]
    ELSE [start_time |-> now + MinutesPerHour,
          end_time |-> now + MinutesPerHour + MinutesPerHour]

\* the moments a request arrives at: midnight, 9:15 and 23:30
Nows == {0, 555, 1410}

\* values of the start_time parameter; the empty one is the absent parameter
TimeStrs ==
  { <<"tomorrow", " ", "2", "pm">>, <<"today", " ", "3", ":", "30", "pm">>,
    <<"14", ":", "00">>, <<"tomorrow">>, <<"today">>, <<"tomorrow", " ", "12", "am">>,
    <<"12", "pm">>, <<"2", "pm", " ", "tomorrow">>,
    <<"tomorrow", " ", "at", " ", "2", "pm">>, <<"25", ":", "00">>,
    <<"tomorrow", " ", "14", ":", "00">>, <<"today", " ", "9", "am">>,
    <<"14">>, <<>> }

\* values of the duration parameter; "1 hour" is the absent parameter
DurationStrs ==
  { <<"1", " ", "hour">>, <<"2", " ", "hours">>, <<"30", " ", "minutes">>,
    <<"90", " ", "minutes">>, <<"half", " ", "hour">>, <<"soon">>,
    <<"2", " ", "hours", " ", "30", " ", "minutes">> }

InitCalendar ==
  /\ \E now \in Nows, time_str \in TimeStrs, duration_str \in DurationStrs :
       event = [NoEvent EXCEPT !.pc = "call", !.now = now, !.time_str = time_str,
                               !.duration_str = duration_str]
  /\ retry = NoRetry /\ provider = NoProvider
  /\ conv = [c \in Calls |-> IdleCall] /\ outbox = NoOutbox /\ endpoint = NoEndpoint
  /\ conversation = <<>> /\ history_string = <<>> /\ parsed = <<>> /\ cpc = "new"
  /\ remaining = <<>> /\ interp = NoInterp
  /\ bb_events = {} /\ auth_users = <<>> /\ user_profiles = NoRow /\ otp_pending = {}
  /\ task = [t \in Tasks |-> IdleTask]
  /\ deliveries = 0

CalendarRest ==
  UNCHANGED <<onbVars, conversation, history_string, parsed, cpc, remaining, interp,
              conv, outbox, endpoint, retry, provider>>

\* _execute_function, CREATE_CALENDAR_EVENT: the times handed to the provider
ParseNaturalDatetime ==
  /\ event.pc = "call"
  /\ event' = [event EXCEPT
       !.pc = "done",
       !.start_time =
          _parse_natural_datetime(event.now, event.time_str, event.duration_str).start_time,
       !.end_time =
          _parse_natural_datetime(event.now, event.time_str, event.duration_str).end_time]
  /\ CalendarRest

NextCalendar == ParseNaturalDatetime

SpecCalendar == InitCalendar /\ [][NextCalendar]_vars

\* =================================================================== claims
\* the profile a task looked up when it started
Seen(t) == task[t].existing_user.profile
\* the handler of task t has returned its reply and ran alone
ReturnedAlone(t) == task[t].pc = "respond" /\ ~task[t].overlap
TextOf(t) == task[t].payload.text

\* C1: the stored profile never has email_verified = true together with
\* onboarding_state = awaiting_email.
C1_VerifiedNeverAwaitingEmail ==
  ~(/\ user_profiles.exists
    /\ user_profiles.email_verified
    /\ user_profiles.onboarding_state = "awaiting_email")

\* C2: after two concurrent tasks for a phone number that had no identity
\* have both gone through identity creation, there is exactly one auth user
\* and one profile, and neither task answers with the account-setup error.
C2_OneIdentityForConcurrentNewPhone ==
  (\A t \in Tasks :
      /\ task[t].pc = "done" /\ task[t].new_user /\ task[t].overlap
      /\ task[t].reply \notin {"none", "fresh_start"})
  => /\ Len(auth_users) = 1
     /\ user_profiles.exists
     /\ \A t \in Tasks : task[t].reply # "setup_error"

\* C3: two handlings of the same raw webhook bytes (the same event id) do
\* not both end with an OTP email sent.
C3_RedeliverySendsNoSecondOtp ==
  \A t, u \in Tasks :
    (/\ t # u
     /\ task[t].pc \in {"respond", "done"} /\ task[u].pc \in {"respond", "done"}
     /\ generate_event_id(task[t].payload) = generate_event_id(task[u].payload))
    => ~(task[t].reply = "otp_sent" /\ task[u].reply = "otp_sent")

\* C4: the update of _mark_email_verified changes the row only if the stored
\* email_verified is false, and then makes it true; an update that matches no
\* row changes nothing and is followed by a re-read, which ends as success if
\* the stored email_verified is true and as an error only if it is not.
C4_MarkStep(t) ==
  /\ (task[t].pc = "mark_update" /\ task'[t].pc # "mark_update") =>
        IF user_profiles.email_verified
          THEN user_profiles' = user_profiles /\ task'[t].pc = "mark_reread"
          ELSE /\ user_profiles'.email_verified
               /\ task'[t].pc = "respond" /\ task'[t].reply = "verified"
  /\ (task[t].pc = "mark_reread" /\ task'[t].pc # "mark_reread") =>
        /\ user_profiles' = user_profiles
        /\ task'[t].reply = IF user_profiles.email_verified THEN "verified"
                                                           ELSE "verify_error"

C4_MarkVerifiedConditional == [][\A t \in Tasks : C4_MarkStep(t)]_vars

\* C4 witness: a task whose update matched no row is about to re-read a
\* profile that another task has verified.
C4_Witness ==
  \E t \in Tasks : task[t].pc = "mark_reread" /\ user_profiles.email_verified

\* C5: a step of a task changes the stored onboarding_state or email_verified
\* only while they hold the values the task read when it looked the user up.
C5_StaleStep(t) ==
  (/\ task[t].pc # task'[t].pc
   /\ Seen(t).exists
   /\ \/ user_profiles'.onboarding_state # user_profiles.onboarding_state
      \/ user_profiles'.email_verified # user_profiles.email_verified)
  => /\ user_profiles.onboarding_state = Seen(t).onboarding_state
     /\ user_profiles.email_verified = Seen(t).email_verified

C5_WritesAreConditional == [][\A t \in Tasks : C5_StaleStep(t)]_vars

\* C6: when a message with an extractable email from a phone number without
\* identity has been handled, with no other task in flight and the OTP sent,
\* one identity with that email is stored, exactly one OTP send was made and
\* the stored onboarding_state is awaiting_email_otp.
C6_NewUserEmailAwaitsOtp ==
  \A t \in Tasks :
    (/\ ReturnedAlone(t) /\ task[t].new_user
     /\ _extract_email_from_text(TextOf(t)) # NULL
     /\ task[t].reply = "otp_sent")
    => /\ user_profiles.exists
       /\ user_profiles.email = _extract_email_from_text(TextOf(t))
       /\ task[t].otps = 1
       /\ user_profiles.onboarding_state = "awaiting_email_otp"

\* the case of C7: a 6-digit code from an unverified user in awaiting_email_otp
C7_Case(t) ==
  /\ ReturnedAlone(t)
  /\ Seen(t).exists /\ ~Seen(t).email_verified /\ ~Seen(t).onboarding_completed
  /\ Seen(t).onboarding_state = "awaiting_email_otp"
  /\ _extract_otp_from_text(TextOf(t)) # NULL

\* C7: when a message with a 6-digit code from an unverified user in
\* awaiting_email_otp has been handled with no other task in flight, either
\* the code was accepted and the profile has email_verified = true,
\* onboarding_state = awaiting_integrations and onboarding_completed = false,
\* or it was not and the profile still has onboarding_state =
\* awaiting_email_otp and email_verified = false.
C7_OtpCodeDecidesVerification ==
  \A t \in Tasks :
    C7_Case(t) =>
      \/ /\ task[t].reply = "verified"
         /\ user_profiles.email_verified
         /\ user_profiles.onboarding_state = "awaiting_integrations"
         /\ ~user_profiles.onboarding_completed
      \/ /\ task[t].reply # "verified"
         /\ ~user_profiles.email_verified
         /\ user_profiles.onboarding_state = "awaiting_email_otp"

\* C7 witness: an accepted code has been handled.
C7_Witness == \E t \in Tasks : C7_Case(t) /\ task[t].reply = "verified"

\* C8: when "restart" from a sender with a stored profile that is not
\* COMPLETED has been handled with no other task in flight, the stored onboarding_state is awaiting_email
\* and the stored email is cleared.
C8_RestartInEveryNonTerminalState ==
  \A t \in Tasks :
    (/\ ReturnedAlone(t) /\ IsRestart(TextOf(t))
     /\ Seen(t).exists
     /\ ~(Seen(t).email_verified /\ Seen(t).onboarding_completed))
    => /\ user_profiles.onboarding_state = "awaiting_email"
       /\ user_profiles.email = NULL

\* C9: when the handler, with no other task in flight, answers that the OTP
\* could not be sent or the code could not be verified, the stored onboarding_state is the one the user had
\* before the message was handled.
C9_OtpFailureKeepsState ==
  \A t \in Tasks :
    (/\ ReturnedAlone(t) /\ Seen(t).exists
     /\ task[t].reply \in {"send_failed", "invalid_code"})
    => user_profiles.onboarding_state = Seen(t).onboarding_state

\* C10: _parse_conversation_string(_conversation_to_string(T)) = T.
C10_RoundTrip == cpc = "parsed" => parsed = conversation

\* the last n elements of a sequence (all of it when it is shorter)
LastTurns(history, n) ==
  SubSeq(history, Len(history) - (IF Len(history) < n THEN Len(history) ELSE n) + 1,
         Len(history))

HasBody(text, bodies) ==
  \E pre \in Proses, post \in Proses, gap1 \in Gaps, gap2 \in Gaps, body \in bodies :
    text = Fenced(pre, gap1, body, gap2, post)

\* bodies that are JSON and name DRAFT_EMAIL, and bodies that are no JSON
SupportedBodies == { b \in Bodies : Solid(b) \in JsonObjects /\ "F" \in Words(b) }
InvalidBodies == { b \in Bodies : Solid(b) \notin JsonObjects }

\* text holds the characters of prose and nothing else, every whitespace of
\* it is a single space, and it neither starts nor ends with one
IsCleanedProse(text, prose) ==
  /\ Solid(text) = Solid(prose)
  /\ \A i \in 1..Len(text) : text[i] # "\n"
  /\ \A i \in 1..(Len(text) - 1) : ~(text[i] = " " /\ text[i + 1] = " ")
  /\ text # <<>> => text[1] # " " /\ text[Len(text)] # " "

\* C16: when a model output made of prose around one fenced json block that
\* names a supported function has been interpreted, the cleaned text holds
\* the prose before and after the block and no part of the block, with its
\* whitespace collapsed to single spaces and trimmed, and the function of
\* the block was executed once with the params of the block.
C16_BlockStrippedAndExecuted ==
  interp.pc = "done" =>
    \A pre \in Proses, post \in Proses, gap1 \in Gaps, gap2 \in Gaps,
       body \in SupportedBodies :
      interp.full_ai_response = Fenced(pre, gap1, body, gap2, post) =>
        /\ IsCleanedProse(_strip_function_calls(interp.full_ai_response), pre \o post)
        /\ interp.executed =
             << [function |-> "DRAFT_EMAIL",
                 params |-> IF Len(Solid(body)) = 5 THEN "block" ELSE "default"] >>
        /\ interp.ai_responses =
             Responses(_strip_function_calls(interp.full_ai_response),
                       interp.function_result)
        /\ interp.function_result # <<>>

\* C16 witness: prose with newlines around a block with params was interpreted.
C16_Witness ==
  /\ interp.pc = "done"
  /\ interp.full_ai_response =
       Fenced(<<"a", "\n", "a">>, <<"\n">>, <<"{", "F", "{", "}", "}">>, <<"\n">>, <<"a">>)
  /\ Len(interp.ai_responses) = 2

\* C17: for a model output whose fenced block holds no JSON the interpreter
\* step executes no function and ends without a result, and the reply that
\* is built then is the cleaned text alone (no reply when it is empty).
C17_Step ==
  HasBody(interp.full_ai_response, InvalidBodies) =>
    /\ interp.pc = "execute" =>
         /\ interp'.pc = "reply"
         /\ interp'.executed = <<>> /\ interp'.function_result = <<>>
    /\ interp.pc = "reply" =>
         /\ interp'.pc = "done"
         /\ interp'.executed = <<>>
         /\ interp'.ai_responses =
              IF _strip_function_calls(interp.full_ai_response) = <<>> THEN <<>>
              ELSE << _strip_function_calls(interp.full_ai_response) >>

HasTurn(str, role, content) ==
  \E i \in 1..Len(Split(str, "\n")) :
    Split(str, "\n")[i] = role \o <<"|">> \o content

\* C12: while a call is about to invoke the model, or the model call is in
\* flight, the stored transcript holds the user turn of that call.
C12_UserTurnPersistedBeforeModel ==
  \A c \in Calls :
    conv[c].pc = "generate" =>
      HasTurn(history_string, <<"user">>, conv[c].user_message)

\* a transcript write of the final store of call b, made when call a has
\* completed and its turns are stored, keeps the turns of a
C13_Step(a, b) ==
  ( /\ a # b
    /\ conv[a].pc = "done"
    /\ conv[b].pc = "store_write" /\ conv'[b].pc = "done"
    /\ HasTurn(history_string, <<"user">>, conv[a].user_message)
    /\ HasTurn(history_string, <<"assistant">>, conv[a].full_ai_response) )
  => /\ HasTurn(history_string', <<"user">>, conv[a].user_message)
     /\ HasTurn(history_string', <<"assistant">>, conv[a].full_ai_response)

\* C13: if call A has completed before call B writes the transcript, the
\* transcript B writes still holds the user turn and the assistant turn of A.
C13_WriteKeepsCompletedCall ==
  [][\A a \in Calls : \A b \in Calls : C13_Step(a, b)]_vars

\* the return of a call whose model call raised
C14_Step(c) ==
  (conv[c].pc = "store_write" /\ conv'[c].pc = "done" /\ conv[c].raised)
  => /\ conv'[c].ai_responses = <<Apology>>
     /\ HasTurn(history_string', <<"user">>, conv[c].user_message)

\* C14: a call whose model call raised returns the fallback apology as its
\* only reply, and when it returns the stored transcript holds its user turn.
C14_ModelFailureGivesApology == [][\A c \in Calls : C14_Step(c)]_vars

\* C14 witness: a call whose model call raised has returned the apology and
\* its user turn is stored.
C14_Witness ==
  \E c \in Calls :
    /\ conv[c].pc = "done" /\ conv[c].raised
    /\ conv[c].ai_responses = <<Apology>>
    /\ HasTurn(history_string, <<"user">>, conv[c].user_message)

\* every step of the sending keeps what C18 states
C18_Step ==
  /\ Len(outbox'.sent) <= Len(outbox.sent) + 1
  /\ outbox'.sent = SubSeq(outbox'.responses_to_send, 1, Len(outbox'.sent))
  /\ (outbox'.pc = "done" /\ outbox'.raised) => outbox'.success = FALSE
  /\ (outbox'.pc = "done" /\ ~outbox'.raised) =>
       /\ outbox'.success = TRUE
       /\ outbox'.sent = outbox'.responses_to_send \/ outbox'.chat_identifier = NULL
  /\ outbox'.raised =>
       /\ outbox'.sent = outbox.sent
       /\ user_profiles' = user_profiles
       /\ history_string' = history_string

\* C18: every transport call sends one reply, the replies that were sent are
\* the first ones of the list in its order, a call that fails makes the
\* handling report success = false, and the replies that were sent, the
\* profile row and the transcript stay as they were when a call fails.
C18_RepliesSentInOrder == [][C18_Step]_vars

\* C18 witness: a reply was sent, the next send failed and the handling
\* reported success = false with the profile row of the user still written.
C18_Witness ==
  /\ outbox.pc = "done" /\ outbox.raised
  /\ outbox.chat_identifier # NULL
  /\ Len(outbox.sent) >= 1
  /\ Len(outbox.sent) < Len(outbox.responses_to_send)
  /\ outbox.success = FALSE
  /\ user_profiles.exists

\* the request of an answer is one the endpoint has to reject
MustReject(answer) ==
  \/ IsEmpty(answer.raw_body)
  \/ /\ endpoint.WEBHOOK_SHARED_SECRET # NULL
     /\ answer.x_shared_secret # endpoint.WEBHOOK_SHARED_SECRET
  \/ ~IsJson(answer.raw_body)

\* the answer that a step of the endpoint gives
C19_Step ==
  Len(endpoint'.answers) > Len(endpoint.answers) =>
    LET answer == endpoint'.answers[Len(endpoint'.answers)]
    IN MustReject(answer) =>
         /\ ~answer.success
         /\ answer.event_id = NoEventId
         /\ bb_events' = bb_events

\* C19: a request with an empty body, with a missing or mismatching secret
\* when one is configured, or with a body that is not JSON is rejected with
\* no event id computed and with bb_events left as it was.
C19_RejectedBeforeStorage == [][C19_Step]_vars

\* C19 witness: with a secret configured and an event stored, a JSON body
\* with a mismatching secret, an empty body and a body that is not JSON
\* have been rejected.
C19_Witness ==
  /\ endpoint.WEBHOOK_SHARED_SECRET # NULL
  /\ \E i \in 1..Len(endpoint.answers) :
       /\ endpoint.answers[i].detail = "secret"
       /\ IsJson(endpoint.answers[i].raw_body)
  /\ \E i \in 1..Len(endpoint.answers) :
       endpoint.answers[i].detail \in {"empty", "json"}
  /\ bb_events # {}

\* the requests that pass the checks of the endpoint
Accepted == { i \in 1..Len(endpoint.answers) : ~MustReject(endpoint.answers[i]) }

\* C20: the deliveries of the same bytes that pass the checks are all
\* answered with success and with the same event id, the id of the bytes,
\* and bb_events holds exactly one row with that id.
C20_IdempotentStorage ==
  \A i \in Accepted :
    LET answer == endpoint.answers[i]
    IN /\ answer.success
       /\ answer.event_id = generate_event_id(answer.raw_body)
       /\ \A j \in Accepted :
            endpoint.answers[j].raw_body = answer.raw_body =>
              endpoint.answers[j].event_id = answer.event_id
       /\ Cardinality({ e \in bb_events : e.id = answer.event_id }) = 1
       /\ \A e \in bb_events : e.id = answer.event_id => e.payload = answer.raw_body

\* C20 witness: the same bytes were delivered twice with different headers,
\* both deliveries were answered with success, and one row holds the id.
C20_Witness ==
  \E i \in Accepted : \E j \in Accepted :
    /\ i # j
    /\ endpoint.answers[i].raw_body = endpoint.answers[j].raw_body
    /\ endpoint.answers[i].x_shared_secret # endpoint.answers[j].x_shared_secret
    /\ endpoint.answers[i].success /\ endpoint.answers[j].success
    /\ Cardinality({ e \in bb_events : e.id = endpoint.answers[i].event_id }) = 1

\* the step of create_authenticated_user that looks for the phone number, or
\* for the email, and finds a stored profile
C21_Step(t) ==
  ( /\ task'[t].pc # task[t].pc
    /\ \/ task[t].pc = "cr_phone" /\ user_profiles.exists
       \/ /\ task[t].pc = "cr_email"
          /\ user_profiles.exists /\ user_profiles.email = task[t].email )
  => /\ task'[t].pc \in {"nu_store", "respond"}
     /\ task'[t].reply # "setup_error"
     /\ task'[t].uid = user_profiles.id
     /\ auth_users' = auth_users
     /\ user_profiles' = user_profiles

\* C21: create_authenticated_user that finds a stored profile with the phone
\* number or with the email returns the identity of that profile, does not
\* raise, creates no auth user and leaves the profile as it is.
C21_CreateReturnsExisting == [][\A t \in Tasks : C21_Step(t)]_vars

\* C21 witness: a call for a new sender has returned the identity of the
\* profile another task created with another email, and no auth user was
\* created for the email of the call.
C21_Witness ==
  \E t \in Tasks :
    /\ task[t].new_user
    /\ task[t].pc = "nu_store"
    /\ user_profiles.exists /\ task[t].uid = user_profiles.id
    /\ task[t].email # user_profiles.email
    /\ auth_users = <<user_profiles.email>>

\* the lookups and the delays of the retry loop
C22_Bounded ==
  /\ retry.lookups <= max_retries
  /\ Len(retry.slept) <= max_retries - 1
  /\ \A i \in 1..Len(retry.slept) : \A j \in 1..Len(retry.slept) :
       i < j => retry.slept[i] < retry.slept[j]
  /\ retry.found_at > 0 => retry.lookups = retry.found_at
  /\ retry.pc # "lookup" =>
       /\ Len(retry.slept) = retry.lookups - 1
       /\ retry.found_at = 0 =>
            /\ retry.lookups = max_retries
            /\ retry.pc = "done" /\ retry.reply = "account_not_found"

\* a lookup that is made when the profile is readable ends the retries
C22_Step ==
  (retry.pc = "lookup" /\ retry'.lookups > retry.lookups /\ user_profiles.exists)
  => retry'.pc = "verify" /\ retry'.found_at = retry'.lookups

\* C22: at most 3 lookups are made, with a growing delay between them; the
\* first lookup that finds the user ends the retries; the call always comes
\* to its end; and when no lookup finds the user the reply says that the
\* account could not be found.
C22_LookupRetriedWithBackoff ==
  /\ []C22_Bounded
  /\ [][C22_Step]_vars
  /\ <>(retry.pc = "done")

\* C22 witness: the first two lookups found no user, the delays grew, and
\* the third lookup found the user.
C22_Witness ==
  /\ retry.found_at = max_retries
  /\ retry.slept = <<1, 2>>
  /\ retry.pc = "done" /\ retry.reply = "verified"

\* ---------------------------------------------------------------------- C23
\* the sign_in_with_otp call of the handling has failed
OtpSendFailed(t) == task[t].otps = 1 /\ task[t].email \notin otp_pending
\* the verify_otp call of the handling has refused the code
OtpVerifyFailed(t) ==
  /\ _extract_otp_from_text(task[t].payload.text) # NULL
  /\ task[t].pc = "sending"
  /\ ~user_profiles.email_verified

\* C23: when the call of the model, of the action provider, of sign_in_with_otp
\* or of verify_otp fails while a message is handled, the replies hold the
\* text that tells the user so, process_webhook_message returns a
\* MessageResponse in every case, and its success is true exactly when every
\* reply of the list was delivered.
C23_FailureGivesReplyAndSuccess ==
  outbox.pc = "done" =>
    /\ outbox.success = (outbox.sent = outbox.responses_to_send)
    /\ interp.full_ai_response = Apology => outbox.responses_to_send = <<Apology>>
    /\ interp.executed # <<>> =>
         /\ interp.function_result # <<>>
         /\ outbox.responses_to_send[Len(outbox.responses_to_send)]
              = interp.function_result
    /\ \A t \in Tasks :
         /\ OtpSendFailed(t) => outbox.responses_to_send = << <<"send_failed">> >>
         /\ OtpVerifyFailed(t) => outbox.responses_to_send = << <<"invalid_code">> >>

\* the action provider has raised, its error text is the last reply that was
\* delivered and the handling reports success
C23_Witness ==
  /\ outbox.pc = "done" /\ outbox.success
  /\ interp.executed # <<>> /\ interp.function_result = ResultMessage("raises")
  /\ outbox.sent # <<>>
  /\ outbox.sent[Len(outbox.sent)] = interp.function_result

\* ---------------------------------------------------------------------- C24
\* C24: the handling of a message ends with a reply list that is not empty:
\* whatever the model has answered and whatever has failed, the user is sent
\* at least one reply.
C24_NeverSilent ==
  (outbox.pc = "done" /\ interp.full_ai_response # <<>>) =>
    outbox.responses_to_send # <<>>

\* ---------------------------------------------------------------------- C25
\* the row is the one of a verified user whose onboarding is not completed
VerifiedNotCompleted(row) ==
  row.exists /\ row.email_verified /\ ~row.onboarding_completed

C25_Step(t) ==
  task'[t].pc # task[t].pc =>
    /\ (/\ task[t].pc = "lookup" /\ task[t].payload.kind = "msg"
        /\ VerifiedNotCompleted(user_profiles))
         => task'[t].pc = "integ_read"
    /\ (task[t].pc = "integ_read" /\ VerifiedNotCompleted(user_profiles)) =>
         /\ user_profiles' = user_profiles
         /\ IF user_profiles.google /\ user_profiles.canvas
              THEN task'[t].pc = "integ_write"
              ELSE task'[t].pc = "respond" /\ task'[t].reply = "dashboard_prompt"
    /\ task[t].pc = "integ_write" =>
         /\ user_profiles'.onboarding_completed
         /\ user_profiles'.onboarding_state = "completed"
         /\ task'[t].pc = "ai"

\* C25: for a user with email_verified and without onboarding_completed every
\* message, whatever its text, goes to the integration check; when both
\* integrations are linked the check writes onboarding_completed = true and
\* onboarding_state = completed and the message goes on to the conversation,
\* otherwise the check writes nothing and the reply is the dashboard prompt.
C25_IntegrationCheckCompletes == [][\A t \in Tasks : C25_Step(t)]_vars

\* a message of a verified user without onboarding_completed has completed
\* the onboarding and is with the conversation handler
C25_Witness ==
  \E t \in Tasks :
    /\ task[t].pc = "ai"
    /\ VerifiedNotCompleted(Seen(t))
    /\ user_profiles.onboarding_completed
    /\ user_profiles.onboarding_state = "completed"

\* ---------------------------------------------------------------------- C26
C26_Step ==
  (user_profiles.onboarding_completed /\ user_profiles.onboarding_state = "completed")
    => /\ user_profiles'.onboarding_completed
       /\ user_profiles'.onboarding_state = "completed"
       /\ \A t \in Tasks :
            (/\ task[t].pc = "lookup" /\ task[t].payload.kind = "msg"
             /\ task'[t].pc # "lookup")
              => task'[t].pc = "ai"

\* C26: once a profile holds onboarding_completed = true and onboarding_state
\* = completed, no step of any handling changes either value, and every
\* message that is looked up then goes to the conversation handler.
C26_CompletedIsTerminal == [][C26_Step]_vars

\* ---------------------------------------------------------------------- C27
\* C27: when the sender is not_started (no profile yet, or an unverified
\* profile whose onboarding_state is not_started) and the message holds no
\* email (and is not "restart"), the handler answers with the prompt for the
\* email and the stored onboarding_state is awaiting_email.
C27_NotStartedPromptsForEmail ==
  \A t \in Tasks :
    (/\ ReturnedAlone(t)
     /\ task[t].payload.kind = "msg"
     /\ _extract_email_from_text(TextOf(t)) = NULL
     /\ ~IsRestart(TextOf(t))
     /\ \/ ~Seen(t).exists
        \/ Seen(t).onboarding_state = "not_started" /\ ~Seen(t).email_verified)
      => /\ task[t].reply \in {"welcome_prompt", "prompt_email"}
         /\ user_profiles.onboarding_state = "awaiting_email"

\* ---------------------------------------------------------------------- C28
\* the handling of t ran alone for a user who waited for the OTP, and its
\* message holds an email that is not the stored one
NewEmailWhileAwaitingOtp(t) ==
  /\ ReturnedAlone(t)
  /\ task[t].payload.kind = "msg"
  /\ ~IsRestart(TextOf(t))
  /\ Seen(t).exists /\ ~Seen(t).email_verified
  /\ Seen(t).onboarding_state = "awaiting_email_otp"
  /\ _extract_email_from_text(TextOf(t)) \notin {NULL, Seen(t).email}

\* C28: a message with a new email from a user in awaiting_email_otp replaces
\* the stored email (in the profile and in the auth user), calls
\* sign_in_with_otp for the new address once, and leaves onboarding_state at
\* awaiting_email_otp; the email that _handle_otp_verification_existing takes
\* for the user as looked up from then on is the new address.
C28_NewEmailReplacesStoredOne ==
  \A t \in Tasks :
    NewEmailWhileAwaitingOtp(t) =>
      LET email == _extract_email_from_text(TextOf(t))
      IN /\ user_profiles.email = email
         /\ auth_users[user_profiles.id] = email
         /\ user_profiles.onboarding_state = "awaiting_email_otp"
         /\ task[t].otps = 1
         /\ task[t].reply \in {"otp_sent", "send_failed"}
         /\ task[t].reply = "otp_sent" => email \in otp_pending
         /\ VerifyEmail(get_user_by_phone_number) = email

\* the OTP went to the new address e2 of a user who had waited for the OTP
\* that was sent to e1
C28_Witness ==
  \E t \in Tasks :
    /\ NewEmailWhileAwaitingOtp(t)
    /\ Seen(t).email = "e1"
    /\ user_profiles.email = "e2"
    /\ task[t].reply = "otp_sent"
    /\ otp_pending = {"e1", "e2"}

\* ---------------------------------------------------------------------- C29
C29_Step(t) ==
  /\ task'[t].otps <= 1
  /\ (task'[t].pc = "lookup" /\ task[t].pc # "lookup") =>
       ~Active(t) /\ deliveries' = deliveries + 1
  /\ (task'[t].pc = "otp_verify" /\ task[t].pc # "otp_verify") =>
       task[t].pc = "lookup"
  /\ (task[t].pc = "otp_verify" /\ task'[t].pc # "otp_verify") =>
       task'[t].pc \in {"mark_update", "respond"}
  /\ (task[t].pc \in {"ep_send", "re_send", "nu_send"} /\ task'[t].pc # task[t].pc) =>
       /\ task'[t].pc = "respond"
       /\ task'[t].otps = 1
       /\ task'[t].reply \in {"otp_sent", "send_failed"}

\* C29: the handling of one message calls sign_in_with_otp at most once and
\* verify_otp at most once: the verification is entered from the lookup of
\* the message only and is left for the update or for the reply, and a send
\* is followed by the reply whether it succeeded or failed.
C29_OneOtpCallPerMessage == [][\A t \in Tasks : C29_Step(t)]_vars

\* a handling whose one call of sign_in_with_otp failed has ended
C29_Witness ==
  \E t \in Tasks :
    task[t].pc = "done" /\ task[t].reply = "send_failed" /\ task[t].otps = 1

\* ---------------------------------------------------------------------- C30
\* the calls that are made for a model output that is the one block
CallsOf(body) ==
  LET call == FunctionCall(Fenced(<<>>, <<>>, body, <<>>, <<>>))
  IN IF call = NoCall THEN <<>> ELSE <<call>>

\* the text of the block starts and ends with a brace
Braced(body) == body[1] = "{" /\ body[Len(body)] = "}"

Embeds(whole, text) ==
  \E i \in 1..(Len(whole) + 1) :
    /\ i + Len(text) - 1 <= Len(whole)
    /\ SubSeq(whole, i, i + Len(text) - 1) = text

\* C31: when the answer of the action provider is not a success (a status
\* other than 200, or an exception of the request), the result message is a
\* failure summary that holds the text of that answer, it is the last reply
\* of the list that goes to the user, and the request was made once; no
\* function call makes more than one request.
C31_ProviderFailureIsReported ==
  /\ provider.requests <= 1
  /\ (provider.pc = "done" /\ provider.response.kind # "none"
        /\ provider.response.status_code # 200) =>
       /\ provider.requests = 1
       /\ provider.function_result # <<>>
       /\ Embeds(provider.function_result, provider.response.text)
       /\ Embeds(provider.function_result, provider.result.error)
       /\ provider.result.error # <<>>
       /\ provider.ai_responses # <<>>
       /\ provider.ai_responses[Len(provider.ai_responses)] = provider.function_result

\* the provider answered 500 with a text and the reply list ends with the
\* summary that holds it
C31_Witness ==
  /\ provider.pc = "done"
  /\ provider.function = "DRAFT_EMAIL"
  /\ provider.response = [kind |-> "status", status_code |-> 500,
                          text |-> <<"denied", "scope">>]
  /\ provider.ai_responses =
       << <<"a">>,
          <<"Failed to create draft:", "Failed to create draft:", "denied", "scope">> >>

\* ---------------------------------------------------------------------- C32
C32_Step(c) ==
  /\ (conv[c].pc = "idle" /\ conv'[c].pc # "idle") =>
       /\ conv'[c].pc =
            IF TotalTokens(conv'[c].conversation_history) > max_tokens
              THEN "truncate" ELSE "generate"
       /\ history_string' = history_string
  /\ (conv[c].pc = "truncate" /\ conv'[c].pc # "truncate") =>
       /\ TotalTokens(conv[c].conversation_history) > max_tokens
       /\ conv'[c].conversation_history =
            LastTurns(conv[c].conversation_history, Len(conv'[c].conversation_history))
       /\ history_string' = _conversation_to_string(conv'[c].conversation_history)
       /\ conv'[c].pc = "generate" /\ conv'[c].model_output = <<>>
  /\ (conv[c].pc = "generate" /\ conv'[c].pc # "generate") =>
       conv'[c].conversation_history = conv[c].conversation_history

\* C32: the history of a call is truncated only when its tokens exceed
\* max_tokens; the truncated history is the last turns of that history in
\* their order; and it is written to the stored transcript in the step that
\* ends the truncation, before the model is called with it.
C32_TruncationOnlyOverBudget == [][\A c \in Calls : C32_Step(c)]_vars

\* a call whose history was cut to its last two turns and stored is about
\* to call the model
C32_Witness ==
  \E c \in Calls :
    /\ conv[c].pc = "generate"
    /\ Len(conv[c].conversation_history) = 2
    /\ conv[c].conversation_history[1].role = <<"assistant">>
    /\ conv[c].conversation_history[2] = user_msg(c)
    /\ history_string = _conversation_to_string(conv[c].conversation_history)

\* --------------------------------------------------------------------- C33
\* C33: when the start_time of a CREATE_CALENDAR_EVENT names a date anchor
\* (today or tomorrow) and holds no time token, the event starts at 2:00 PM of
\* the anchored day.
AnchoredWithoutTime(time_str) ==
  /\ HasToken(time_str, "tomorrow") \/ HasToken(time_str, "today")
  /\ TimePart(time_str) = <<>>

C33_AnchorAloneStartsAtTwoPm ==
  (event.pc = "done" /\ AnchoredWithoutTime(event.time_str)) =>
     event.start_time =
        (BaseDate(event.now, event.time_str) \div MinutesPerDay) * MinutesPerDay
          + 14 * MinutesPerHour

\* --------------------------------------------------------------------- C34
\* C34: the event ends after the start resolved from start_time by the minutes
\* the duration names: n minutes for "n minute(s)", 60 n minutes for
\* "n hour(s)", and 60 minutes when the duration is absent or names no such
\* amount.
NamedMinutes(duration_str) ==
  IF Len(duration_str) = 3 /\ duration_str[1] \in NumberTokens /\ duration_str[2] = " "
     /\ duration_str[3] \in {"minute", "minutes"}
    THEN IntOfToken(duration_str[1])
  ELSE IF Len(duration_str) = 3 /\ duration_str[1] \in NumberTokens /\ duration_str[2] = " "
     /\ duration_str[3] \in {"hour", "hours"}
    THEN IntOfToken(duration_str[1]) * MinutesPerHour
  ELSE 60

C34_EndIsStartPlusDuration ==
  (event.pc = "done" /\ StartOf(event.now, event.time_str).ok) =>
     /\ event.start_time = StartOf(event.now, event.time_str).value
     /\ event.end_time = event.start_time + NamedMinutes(event.duration_str)

\* --------------------------------------------------------------------- C35
\* C35: a message reaches the AI conversation service only when the profile
\* read at the start of its processing exists and has email_verified, and
\* either that profile has onboarding_completed or the integration check of
\* this message found or made the stored profile completed; the senders routed
\* to the onboarding workflows never reach it.
C35_Step(t) ==
  (task'[t].pc = "ai" /\ task[t].pc # "ai") =>
     /\ Seen(t)'.exists /\ Seen(t)'.email_verified
     /\ \/ task[t].pc = "lookup" /\ Seen(t)'.onboarding_completed
        \/ /\ task[t].pc \in {"integ_read", "integ_write"}
           /\ ~Seen(t).onboarding_completed
           /\ user_profiles'.onboarding_completed

C35_AiOnlyForVerifiedAndCompleted ==
  [][\A t \in Tasks :
       /\ C35_Step(t)
       /\ (task'[t].reply = "ai" /\ task[t].reply # "ai") => task[t].pc = "ai"]_vars

C35_Witness ==
  \E t \in Tasks :
    /\ task[t].pc = "ai" /\ Seen(t).email_verified /\ ~Seen(t).onboarding_completed
    /\ user_profiles.onboarding_completed

\* --------------------------------------------------------------------- C36
\* C36: email_verified of a stored profile never goes from true back to false,
\* whatever the interleaving of the tasks, a creation task that resumes after
\* the user verified included.
C36_VerifiedIsMonotonic ==
  [][(user_profiles.exists /\ user_profiles.email_verified)
       => (user_profiles'.exists /\ user_profiles'.email_verified)]_vars

\* --------------------------------------------------------------------- C37
\* C37: in the step that makes email_verified true, the email the profile
\* holds is the address the auth provider accepted the OTP for, whatever
\* email change or restart runs beside the verification.
C37_Step(t) ==
  (/\ task[t].pc = "mark_update" /\ task'[t].pc # "mark_update"
   /\ ~user_profiles.email_verified /\ user_profiles'.email_verified)
    => user_profiles'.email = VerifyEmail(task[t].existing_user)

C37_VerifiedEmailIsTheAcceptedOne == [][\A t \in Tasks : C37_Step(t)]_vars

\* --------------------------------------------------------------------- C38
\* the call c writes the transcript while no other call has started
StoresAlone(c) ==
  /\ conv[c].pc = "store_write" /\ conv'[c].pc = "done"
  /\ \A d \in Calls \ {c} : conv[d].pc = "idle"

\* C38: when a call that no other call overlaps stores the transcript, the
\* stored transcript is the history the model was called with (the previous
\* transcript, or the turns the truncation kept, and the one user turn of
\* this message) followed by the one assistant turn: the user message is not
\* stored a second time.
C38_OneUserTurnOneAssistantTurn ==
  [][\A c \in Calls :
       StoresAlone(c) =>
         history_string' =
           _conversation_to_string(Append(conv[c].conversation_history, ai_msg(c)))]_vars

\* --------------------------------------------------------------------- C39
\* C39: a restart of an existing unverified user either answers that the
\* verification was restarted, and then the stored onboarding_state is
\* awaiting_email and the stored email is null, or (when one of its two
\* writes did not take effect) answers with the error, and then the profile
\* is the one that was stored before the restart.
C39_RestartAllOrNothing ==
  \A t \in Tasks :
    (/\ ReturnedAlone(t) /\ IsRestart(TextOf(t))
     /\ Seen(t).exists /\ ~Seen(t).email_verified)
      => \/ /\ task[t].reply = "restart_ok"
            /\ user_profiles.onboarding_state = "awaiting_email"
            /\ user_profiles.email = NULL
         \/ /\ task[t].reply = "restart_error"
            /\ user_profiles = Seen(t)

\* --------------------------------------------------------------------- C40
\* the message of t holds an email and a 6-digit code, and the user it looked
\* up is an unverified one who waits for the OTP
EmailWithCode(t) ==
  /\ task[t].payload.kind = "msg"
  /\ Seen(t).exists /\ ~Seen(t).email_verified
  /\ Seen(t).onboarding_state = "awaiting_email_otp"
  /\ Len(TextOf(t)) >= 2
  /\ _extract_email_from_text(TextOf(t)) # NULL
  /\ _extract_otp_from_text(TextOf(t)) # NULL

====
